---- MODULE Spec2Model ----
(***************************************************************************)
(* Model of the Haier appliance-link tooling (shmrymbd/haier-decoder).     *)
(*                                                                         *)
(* Part 1: the frame codec of WiFiModuleSimulator                          *)
(* (src/wifi_module_simulator.py): header, length, address identifier,     *)
(* accumulative checksum, CRC16 and 0xFF byte-stuffing, and the simulator  *)
(* object whose fields build_frame reads.                                  *)
(***************************************************************************)
EXTENDS Integers, Sequences, FiniteSets, TLC

VARIABLES
    frame_id,           \* self.frame_id
    device_address,     \* self.device_address
    module_address,     \* self.module_address
    communication_log,  \* self.communication_log: sequence of CommunicationLog
    is_connected,       \* self.is_connected
    device_status,      \* self.device_status
    now,                \* the wall clock read by time.time(), in milliseconds
    call,               \* the last direct call of a codec function: its
                        \* arguments, its locals worth observing, its result
    capture,            \* the capture file read by the analysis scripts: its
                        \* well-formed lines, in file order
    run,                \* the last call of an analysis function: its
                        \* arguments and what it computed; or the calls a
                        \* driver of the simulator has made so far
    lock,               \* self._lock: the thread that holds it, or "free"
    threads             \* the threads that call log_communication: where
                        \* each one is in it, and its locals

simvars == <<frame_id, device_address, module_address, communication_log,
             is_connected, device_status, lock, threads>>
vars == <<frame_id, device_address, module_address, communication_log,
          is_connected, device_status, now, call, capture, run, lock,
          threads>>

(***************************************************************************)
(* Bounds of the model and the inputs drawn within them.                   *)
(***************************************************************************)
MaxPayloadLen == 2

\* Calls of build_frame, or of determine_state, made with one set of
\* arguments.
MaxCalls == 2

\* Frame types: 0x04 and 0x61 are sent by simulate_power_up, 0xFF puts the
\* delimiter value in the type position.
FrameTypes == {4, 97, 255}

\* Payload bytes: ordinary values, the stuffing byte 0x55 and the delimiter 0xFF.
PayloadBytes == {0, 1, 85, 255}

\* All sequences of PayloadBytes of length at most n.
RECURSIVE ByteSeqs(_)
ByteSeqs(n) ==
    IF n = 0 THEN {<<>>}
    ELSE LET shorter == ByteSeqs(n - 1)
         IN  shorter \cup {Append(s, b) : s \in {x \in shorter : Len(x) = n - 1},
                                          b \in PayloadBytes}

Payloads == ByteSeqs(MaxPayloadLen)

\* "123456789", the conventional CRC check string.
CheckString == <<49, 50, 51, 52, 53, 54, 55, 56, 57>>

Byte == 0..255

(***************************************************************************)
(* Python integer operators on non-negative integers.                      *)
(***************************************************************************)
RECURSIVE BitXor(_, _)
BitXor(a, b) ==
    IF a = 0 THEN b
    ELSE IF b = 0 THEN a
    ELSE (((a % 2) + (b % 2)) % 2) + 2 * BitXor(a \div 2, b \div 2)

\* The sum of s[lo..hi], halving the range to keep the evaluation shallow.
RECURSIVE SumRange(_, _, _)
SumRange(s, lo, hi) ==
    IF lo > hi THEN 0
    ELSE IF lo = hi THEN s[lo]
    ELSE SumRange(s, lo, (lo + hi) \div 2)
         + SumRange(s, ((lo + hi) \div 2) + 1, hi)

SumSeq(s) == SumRange(s, 1, Len(s))

(***************************************************************************)
(* The frame codec, src/wifi_module_simulator.py lines 36-99.              *)
(***************************************************************************)
HEADER_BYTE == 255
STUFF_BYTE == 85
CRC_INIT == 65535
CRC_POLY == 40961

generate_frame_header == <<HEADER_BYTE, HEADER_BYTE>>

\* Mutant: the trailing checksum byte is not counted.
calculate_frame_length_without_checksum(data) == Len(data)

calculate_frame_length(data) == Len(data) + 1

generate_address_identifier(source, destination) ==
    <<source, destination, 0, 0, 0, 0, 0>>

\* checksum = frame_length; for byte in data: checksum += byte; & 0xFF
calculate_checksum(frame_length, data) == (frame_length + SumSeq(data)) % 256

\* The inner loop, for _ in range(8), with n passes left.
RECURSIVE crc16_shift(_, _)
crc16_shift(crc, n) ==
    IF n = 0 THEN crc
    ELSE IF crc % 2 = 1
         THEN crc16_shift(BitXor(crc \div 2, CRC_POLY), n - 1)
         ELSE crc16_shift(crc \div 2, n - 1)

\* The register after the outer loop has consumed data[1..i].
RECURSIVE crc16_after(_, _)
crc16_after(data, i) ==
    IF i = 0 THEN CRC_INIT
    ELSE crc16_shift(BitXor(crc16_after(data, i - 1), data[i]), 8)

\* Mutant: the register starts at 0x0000 (CRC-16/ARC) instead of 0xFFFF.
RECURSIVE crc16_after_zero_init(_, _)
crc16_after_zero_init(data, i) ==
    IF i = 0 THEN 0
    ELSE crc16_shift(BitXor(crc16_after_zero_init(data, i - 1), data[i]), 8)

calculate_crc16_zero_init(data) == crc16_after_zero_init(data, Len(data))

calculate_crc16(data) == crc16_after(data, Len(data))

\* The loop body: the byte, and 0x55 behind it when it is 0xFF.
escape_byte(data, i) ==
    IF data[i] = HEADER_BYTE THEN <<data[i], STUFF_BYTE>> ELSE <<data[i]>>

\* The loop over data[lo..hi], halving the range to keep the evaluation shallow.
RECURSIVE escape_range(_, _, _)
escape_range(data, lo, hi) ==
    IF lo > hi THEN <<>>
    ELSE IF lo = hi THEN escape_byte(data, lo)
    ELSE escape_range(data, lo, (lo + hi) \div 2)
         \o escape_range(data, ((lo + hi) \div 2) + 1, hi)

\* Mutant: a 0xFF in the last position is not stuffed.
escape_data_unstuffed_tail(data) ==
    IF data = <<>> THEN <<>>
    ELSE escape_range(data, 1, Len(data) - 1) \o <<data[Len(data)]>>

\* Mutant: a 0xFF that already has 0x55 behind it is taken as stuffed.
RECURSIVE escape_range_skip_stuffed(_, _, _)
escape_range_skip_stuffed(data, lo, hi) ==
    IF lo > hi THEN <<>>
    ELSE IF lo = hi
         THEN (IF lo < Len(data) /\ data[lo + 1] = STUFF_BYTE
               THEN <<data[lo]>>
               ELSE escape_byte(data, lo))
    ELSE escape_range_skip_stuffed(data, lo, (lo + hi) \div 2)
         \o escape_range_skip_stuffed(data, ((lo + hi) \div 2) + 1, hi)

escape_data_skip_stuffed(data) == escape_range_skip_stuffed(data, 1, Len(data))

escape_data(data) == escape_range(data, 1, Len(data))

\* Mutant: the CRC is appended high byte first.
frame_before_stuffing_crc_high_first(frame_type, data, use_crc) ==
    LET header == generate_frame_header
        address_id == generate_address_identifier(module_address, device_address)
        frame_data == <<frame_type>> \o data
        frame_length == calculate_frame_length(address_id \o frame_data)
        frame == header \o <<frame_length>> \o address_id \o frame_data
        checksum_data == SubSeq(frame, 3, Len(frame))
        checksum == calculate_checksum(frame_length, checksum_data)
        crc == calculate_crc16(checksum_data)
    IN  IF use_crc
        THEN Append(frame, checksum) \o <<(crc \div 256) % 256, crc % 256>>
        ELSE Append(frame, checksum)

\* build_frame up to line 94: the local `frame` before it is stuffed.
frame_before_stuffing(frame_type, data, use_crc) ==
    LET header == generate_frame_header
        address_id == generate_address_identifier(module_address, device_address)
        frame_data == <<frame_type>> \o data
        frame_length == calculate_frame_length(address_id \o frame_data)
        frame == header \o <<frame_length>> \o address_id \o frame_data
        checksum_data == SubSeq(frame, 3, Len(frame))
        checksum == calculate_checksum(frame_length, checksum_data)
        crc == calculate_crc16(checksum_data)
    IN  IF use_crc
        THEN Append(frame, checksum) \o <<crc % 256, (crc \div 256) % 256>>
        ELSE Append(frame, checksum)

build_frame(frame_type, data, use_crc) ==
    escape_data(frame_before_stuffing(frame_type, data, use_crc))

(***************************************************************************)
(* State after WiFiModuleSimulator.__init__, with the arguments of the     *)
(* codec call under study drawn from the input sets.                       *)
(***************************************************************************)
Inputs ==
    [op : {"input"}, frame_type : FrameTypes,
     data : Payloads \cup {CheckString}, use_crc : BOOLEAN,
     frame : {<<>>}, ret : {<<>>}, crc : {0}, calls : {0}]

\* No capture has been read and no analysis function has been called.
NoCapture == <<>>
NoRun == [op |-> "none"]

\* The fields set by WiFiModuleSimulator.__init__.
\* The threads that log, and a thread outside log_communication.
Producers == {"producer_1", "producer_2"}
Idle == [pc |-> "idle"]

Constructed ==
    /\ frame_id = 1
    /\ device_address = 64
    /\ module_address = 0
    /\ communication_log = <<>>
    /\ is_connected = FALSE
    /\ device_status =
         [power |-> FALSE, temperature |-> 25, mode |-> "auto", alarm |-> FALSE]
    /\ lock = "free"
    /\ threads = [t \in Producers |-> Idle]
    /\ now = 0

Init ==
    /\ Constructed
    /\ call \in Inputs
    /\ capture = NoCapture
    /\ run = NoRun

(***************************************************************************)
(* Direct calls of the codec functions on the object.                      *)
(***************************************************************************)
\* build_frame(call.frame_type, call.data, call.use_crc); a repeated call
\* passes the same arguments again.
\* Mutant: the type byte is inserted into the caller's list (data.insert(0,
\* frame_type)) instead of building a new list.
CallBuildFrameInPlace ==
    /\ call.op \in {"input", "build_frame"}
    /\ call.calls < MaxCalls
    /\ Len(call.data) <= MaxPayloadLen + MaxCalls
    /\ call' = [call EXCEPT
                  !.op = "build_frame",
                  !.calls = @ + 1,
                  !.data = <<call.frame_type>> \o @,
                  !.frame = frame_before_stuffing(call.frame_type, call.data,
                                                  call.use_crc),
                  !.ret = build_frame(call.frame_type, call.data, call.use_crc)]
    /\ UNCHANGED <<simvars, now, capture, run>>

CallBuildFrame ==
    /\ call.op \in {"input", "build_frame"}
    /\ call.calls < MaxCalls
    /\ call.data \in Payloads
    /\ call' = [call EXCEPT
                  !.op = "build_frame",
                  !.calls = @ + 1,
                  !.frame = frame_before_stuffing(call.frame_type, call.data,
                                                  call.use_crc),
                  !.ret = build_frame(call.frame_type, call.data, call.use_crc)]
    /\ UNCHANGED <<simvars, now, capture, run>>

CallEscapeData ==
    /\ call.op = "input"
    /\ call' = [call EXCEPT !.op = "escape_data", !.ret = escape_data(call.data)]
    /\ UNCHANGED <<simvars, now, capture, run>>

CallCrc16 ==
    /\ call.op = "input"
    /\ call' = [call EXCEPT !.op = "calculate_crc16",
                            !.crc = calculate_crc16(call.data)]
    /\ UNCHANGED <<simvars, now, capture, run>>

CodecNext == CallBuildFrame \/ CallEscapeData \/ CallCrc16

SpecCodec == Init /\ [][CodecNext]_vars

(***************************************************************************)
(* The decoder of the wire format.  The repository has no decoder; this is *)
(* the one described for the codec: header check, un-stuffing, length,     *)
(* checksum over length ++ address ++ type ++ payload, CRC16 when present. *)
(***************************************************************************)
\* Every 0xFF is followed by the stuffing byte.
well_stuffed(bytes) ==
    \A i \in 1..Len(bytes) :
        bytes[i] = HEADER_BYTE => (i < Len(bytes) /\ bytes[i + 1] = STUFF_BYTE)

\* Scanning left to right, drop one 0x55 directly after every 0xFF.
RECURSIVE remove_stuffing(_)
remove_stuffing(bytes) ==
    IF bytes = <<>> THEN <<>>
    ELSE IF Head(bytes) = HEADER_BYTE /\ Len(bytes) > 1 /\ bytes[2] = STUFF_BYTE
         THEN <<HEADER_BYTE>> \o remove_stuffing(SubSeq(bytes, 3, Len(bytes)))
         ELSE <<Head(bytes)>> \o remove_stuffing(Tail(bytes))

FrameError(e) == [error |-> e, frame_type |-> 0, payload |-> <<>>]

\* The stuffed bytes after the header, un-stuffed: length, address, type,
\* payload, checksum and, when two more bytes follow, the CRC16.
decode_body(body) ==
    IF body = <<>> \/ body[1] < 9 \/ Len(body) < body[1] + 1
    THEN FrameError("TruncatedFrame")
    ELSE
      LET length == body[1]
          span == SubSeq(body, 2, length)
          covered == SubSeq(body, 1, length)
          crc == calculate_crc16(covered)
      IN  IF body[length + 1] # (length + SumSeq(span)) % 256
          THEN FrameError("ChecksumMismatch")
          ELSE IF Len(body) >= length + 3
                  /\ <<body[length + 2], body[length + 3]>>
                       # <<crc % 256, (crc \div 256) % 256>>
          THEN FrameError("CrcMismatch")
          ELSE [error |-> "none", frame_type |-> span[8],
                payload |-> SubSeq(span, 9, Len(span))]

decode(bytes) ==
    IF Len(bytes) < 2 \/ bytes[1] # HEADER_BYTE \/ bytes[2] # HEADER_BYTE
    THEN FrameError("HeaderMismatch")
    ELSE LET stuffed == SubSeq(bytes, 3, Len(bytes))
         IN  IF ~well_stuffed(stuffed)
             THEN FrameError("InvalidEscape")
             ELSE decode_body(remove_stuffing(stuffed))

(***************************************************************************)
(* Properties of the frame codec.                                          *)
(***************************************************************************)
Built == call.op = "build_frame"

\* Position of the checksum byte in the frame before stuffing.
ChecksumAt == Len(call.data) + 12

AddressId == generate_address_identifier(module_address, device_address)

\* C1. Round trip: decoding the bytes returned by build_frame gives back the
\* frame type and the payload that were passed in.
RoundTrip ==
    Built => decode(call.ret) = [error |-> "none",
                                 frame_type |-> call.frame_type,
                                 payload |-> call.data]

\* C2. The returned frame is bit-exactly FF FF, length, source, destination,
\* five zero bytes, type, payload, checksum and, only with use_crc, the two
\* CRC bytes: the header is sent as the plain pair FF FF, and every 0xFF after
\* the header is followed by one inserted 0x55.
WireFormat ==
    Built =>
      LET n == Len(call.data)
          body == <<call.frame[3], module_address, device_address,
                    0, 0, 0, 0, 0, call.frame_type>>
                  \o call.data \o <<call.frame[ChecksumAt]>>
                  \o (IF call.use_crc
                      THEN <<call.frame[n + 13], call.frame[n + 14]>>
                      ELSE <<>>)
      IN  /\ call.frame = <<HEADER_BYTE, HEADER_BYTE>> \o body
          /\ call.ret = <<HEADER_BYTE, HEADER_BYTE>> \o escape_data(body)

\* C3. The checksum byte is (length + address identifier bytes + type +
\* payload bytes) mod 256: the length byte is counted exactly once.
ChecksumCountsLengthOnce ==
    Built =>
      call.frame[ChecksumAt]
        = (call.frame[3] + SumSeq(AddressId) + call.frame_type
           + SumSeq(call.data)) % 256

\* C4. In the output of escape_data, and in every frame returned by
\* build_frame, every 0xFF byte is directly followed by a 0x55 byte.
StuffingInvariant ==
    call.op \in {"escape_data", "build_frame"} =>
      \A i \in 1..Len(call.ret) :
          call.ret[i] = HEADER_BYTE
            => (i < Len(call.ret) /\ call.ret[i + 1] = STUFF_BYTE)

\* escape_data has run on an input with consecutive 0xFF bytes that ends in 0xFF.
StuffingWitness ==
    /\ call.op = "escape_data"
    /\ call.data = <<HEADER_BYTE, HEADER_BYTE>>
    /\ call.ret = <<HEADER_BYTE, STUFF_BYTE, HEADER_BYTE, STUFF_BYTE>>

CountOf(b, s) == Cardinality({i \in 1..Len(s) : s[i] = b})

\* C5. Escaping round trip: escape_data(p) has len(p) + (number of 0xFF in p)
\* bytes, and removing one 0x55 after every 0xFF gives back p exactly.
EscapeRoundTrip ==
    call.op = "escape_data" =>
      /\ Len(call.ret) = Len(call.data) + CountOf(HEADER_BYTE, call.data)
      /\ remove_stuffing(call.ret) = call.data

\* escape_data has run on a payload that already has 0x55 right after 0xFF.
EscapeRoundTripWitness ==
    /\ call.op = "escape_data"
    /\ call.data = <<HEADER_BYTE, STUFF_BYTE>>
    /\ call.ret = <<HEADER_BYTE, STUFF_BYTE, STUFF_BYTE>>

\* C7. The length field equals len(address_identifier) + 1 + len(payload) + 1,
\* that is len(payload) + 9, in the frame before stuffing and in the returned
\* frame, where it follows the stuffed header.
LengthField ==
    Built =>
      /\ call.frame[3] = Len(AddressId) + 1 + Len(call.data) + 1
      /\ call.frame[3] = Len(call.data) + 9
      /\ call.ret[5] = Len(call.data) + 9

LengthFieldWitness ==
    Built /\ Len(call.data) = 2 /\ call.frame[3] = 11

\* C8. Before stuffing, the frame built with use_crc is the frame built
\* without it plus two trailing bytes, crc & 0xFF then (crc >> 8) & 0xFF, crc
\* being the CRC16 of length ++ address identifier ++ type ++ payload; without
\* use_crc the last byte is the checksum.
CrcTrailer ==
    Built =>
      LET span == <<Len(call.data) + 9>> \o AddressId \o <<call.frame_type>>
                  \o call.data
          crc == calculate_crc16(span)
          plain == frame_before_stuffing(call.frame_type, call.data, FALSE)
      IN  IF call.use_crc
          THEN call.frame = plain \o <<crc % 256, (crc \div 256) % 256>>
          ELSE /\ Len(call.frame) = ChecksumAt
               /\ call.frame[Len(call.frame)]
                    = calculate_checksum(Len(call.data) + 9, span)

CrcTrailerWitness ==
    Built /\ call.use_crc /\ call.data = <<HEADER_BYTE, 1>>
          /\ Len(call.frame) = ChecksumAt + 2

(***************************************************************************)
(* The reference CRC-16: a 16-bit shift register, written bit by bit.      *)
(* A register is a tuple of 16 bits, r[1] the least significant.           *)
(***************************************************************************)
AllOnes == <<1, 1, 1, 1, 1, 1, 1, 1, 1, 1, 1, 1, 1, 1, 1, 1>>

FlipBit(a, b) == (a + b) % 2

BitOf(x, i) == (x \div (2 ^ i)) % 2

\* The byte is XORed into the low eight bits.
RefXorByte(r, byte) ==
    <<FlipBit(r[1], BitOf(byte, 0)), FlipBit(r[2], BitOf(byte, 1)),
      FlipBit(r[3], BitOf(byte, 2)), FlipBit(r[4], BitOf(byte, 3)),
      FlipBit(r[5], BitOf(byte, 4)), FlipBit(r[6], BitOf(byte, 5)),
      FlipBit(r[7], BitOf(byte, 6)), FlipBit(r[8], BitOf(byte, 7)),
      r[9], r[10], r[11], r[12], r[13], r[14], r[15], r[16]>>

\* One right shift; out is the bit shifted out.  0xA001 has bits 0, 13, 15.
RefShiftOnce(r, out) ==
    <<FlipBit(r[2], out), r[3], r[4], r[5], r[6], r[7], r[8], r[9], r[10],
      r[11], r[12], r[13], r[14], FlipBit(r[15], out), r[16], out>>

RECURSIVE RefShift(_, _)
RefShift(r, n) ==
    IF n = 0 THEN r
    ELSE IF r[1] = 1 THEN RefShift(RefShiftOnce(r, 1), n - 1)
                     ELSE RefShift(RefShiftOnce(r, 0), n - 1)

RECURSIVE RefRegister(_, _)
RefRegister(data, i) ==
    IF i = 0 THEN AllOnes
    ELSE RefShift(RefXorByte(RefRegister(data, i - 1), data[i]), 8)

RECURSIVE RegisterValue(_, _)
RegisterValue(r, i) ==
    IF i > 16 THEN 0 ELSE r[i] + 2 * RegisterValue(r, i + 1)

RefCrc16(data) == RegisterValue(RefRegister(data, Len(data)), 1)

\* C9. calculate_crc16 equals the reference bit-wise CRC-16 (register 0xFFFF,
\* byte XORed into the low byte, eight right shifts with XOR 0xA001 whenever
\* the bit shifted out is 1); it lies in 0..0xFFFF, is 0xFFFF for the empty
\* sequence and 0x4B37 for the check string "123456789".
Crc16IsReference ==
    call.op = "calculate_crc16" =>
      /\ call.crc = RefCrc16(call.data)
      /\ call.crc \in 0..65535
      /\ call.data = <<>> => call.crc = 65535
      /\ call.data = CheckString => call.crc = 19255

Crc16Witness ==
    /\ call.op = "calculate_crc16"
    /\ call.data = <<HEADER_BYTE, 1>>
    /\ call.crc = RefCrc16(call.data)
    /\ call.crc # 65535

(***************************************************************************)
(* Corruption of one body byte of a built frame, and the receiver's        *)
(* checksum test on the corrupted frame.                                   *)
(***************************************************************************)
\* One byte among length, address identifier, type and payload (positions
\* 3 .. len(payload) + 11 of the frame before stuffing) takes another value.
MutateByte ==
    /\ call.op = "build_frame"
    /\ \E pos \in 3..(Len(call.data) + 11), v \in Byte :
          /\ v # call.frame[pos]
          /\ call' = [call EXCEPT !.op = "mutated",
                                  !.frame = [call.frame EXCEPT ![pos] = v]]
    /\ UNCHANGED <<simvars, now, capture, run>>

IntegrityNext == CallBuildFrame \/ MutateByte

SpecIntegrity == Init /\ [][IntegrityNext]_vars

\* The checksum of a received frame as build_frame computes it: the length
\* byte read from the frame, and the bytes from the length byte to the payload.
RecomputedChecksum ==
    calculate_checksum(call.frame[3], SubSeq(call.frame, 3, ChecksumAt - 1))

\* C6. Checksum integrity: after any single body byte of a built frame is
\* changed to a different value, the recomputed checksum differs from the
\* stored checksum byte.
ChecksumIntegrity ==
    call.op = "mutated" => RecomputedChecksum # call.frame[ChecksumAt]

(***************************************************************************)
(* The simulator's operations, src/wifi_module_simulator.py lines 101-239, *)
(* each run to completion by one caller.                                   *)
(***************************************************************************)
\* Entries the communication log may hold.
MaxLog == 5

\* A sleep of d milliseconds returns after d .. d + MaxJitter milliseconds.
MaxJitter == 1

Commands == {"power", "temperature", "mode", "fan"}

ControlValues == {0, 1, 22}

\* Payloads of the frames the simulator sends.
power_up_data ==
    <<15, 90, 0, 0, 0, 0, 0, 0, 0, 0>>

device_info_data ==
    <<69, 43, 43, 50, 46, 49, 55, 0, 50, 48, 50, 52, 49, 50, 50, 52, 241,
      0, 0, 48, 48, 48, 48, 48, 48, 48, 49, 0, 85, 45, 87, 77, 84, 0, 0, 0,
      0>>

status_data ==
    <<1, 48, 16, 3, 0, 0, 0, 32, 4, 3, 5, 1, 0, 1, 2, 48, 0, 0, 0, 0, 10,
      15, 8, 20, 5, 5, 6, 5, 4, 26, 4, 26, 4, 26, 0, 0, 0, 0, 0, 0, 0, 0,
      0, 0, 0, 0, 0, 0, 0, 1, 0, 0, 0, 0, 0, 1, 0>>

alarm_data ==
    <<16, 2, 0, 1, 217, 147, 228, 200, 211, 116, 149, 28, 1, 163, 239, 15,
      8, 205, 180, 84, 254, 16, 252, 207, 10, 94, 82, 160, 208, 28, 244,
      53>>

query_data ==
    <<1, 3, 1, 8, 0, 1, 0, 0, 0, 0, 3, 0, 2, 6, 1, 0, 1, 0, 2, 0, 3, 4, 0,
      1>>

network_status_data ==
    <<0, 0, 61, 208, 225>>

HexDigits ==
    <<"0", "1", "2", "3", "4", "5", "6", "7", "8", "9",
      "a", "b", "c", "d", "e", "f">>

\* f"{b:02x}": lowercase hex, at least two digits.
RECURSIVE hex_digits(_)
hex_digits(b) ==
    IF b < 16 THEN HexDigits[b + 1]
    ELSE hex_digits(b \div 16) \o HexDigits[(b % 16) + 1]

format_02x(b) == IF b < 16 THEN "0" \o hex_digits(b) ELSE hex_digits(b)

\* ' '.join of the hex bytes of frame[lo..hi].
RECURSIVE join_hex(_, _, _)
join_hex(frame, lo, hi) ==
    IF lo > hi THEN ""
    ELSE IF lo = hi THEN format_02x(frame[lo])
    ELSE join_hex(frame, lo, (lo + hi) \div 2) \o " "
         \o join_hex(frame, ((lo + hi) \div 2) + 1, hi)

hex_string(frame) == join_hex(frame, 1, Len(frame))

\* log_communication as it would be if it kept only the latest entry.
log_communication_keeping_latest(log, ts, source, frame, description) ==
    <<[timestamp |-> ts, source |-> source,
       frame |-> hex_string(frame), description |-> description]>>

\* log_communication: the entry appended to the log at clock reading ts.
log_communication(log, ts, source, frame, description) ==
    Append(log, [timestamp |-> ts, source |-> source,
                 frame |-> hex_string(frame), description |-> description])

\* update_device_status as it would be without its branch for temperature.
update_device_status_without_temperature(status, command, value) ==
    IF command = "power" THEN [status EXCEPT !.power = (value = 1)]
    ELSE IF command = "mode" THEN [status EXCEPT !.mode = value]
    ELSE status

update_device_status(status, command, value) ==
    IF command = "power" THEN [status EXCEPT !.power = (value = 1)]
    ELSE IF command = "temperature" THEN [status EXCEPT !.temperature = value]
    ELSE IF command = "mode" THEN [status EXCEPT !.mode = value]
    ELSE status

\* The clock readings after time.sleep(d) started at reading t.
AfterSleep(t, d) == {t + d + j : j \in 0..MaxJitter}

\* The body of simulate_power_up.
power_up ==
    /\ \E t2 \in AfterSleep(now, 50) : \E t3 \in AfterSleep(t2, 100) :
         LET power_up_frame == build_frame(4, power_up_data, FALSE)
             ack_frame == build_frame(97, <<0>>, FALSE)
             device_info == build_frame(98, device_info_data, FALSE)
             log1 == log_communication(communication_log, now, "modem",
                                       power_up_frame, "Power-up initialization")
             log2 == log_communication(log1, t2, "machine", ack_frame,
                                       "Power-up acknowledgment")
             log3 == log_communication(log2, t3, "modem", device_info,
                                       "Device information")
         IN  /\ communication_log' = log3
             /\ now' = t3
    /\ is_connected' = TRUE
    /\ UNCHANGED <<frame_id, device_address, module_address, device_status>>

\* What a direct call on the simulator leaves alone.
outside == <<call, capture, run, lock, threads>>

\* The fields of the simulator and the clock.
inside == <<frame_id, device_address, module_address, communication_log,
            is_connected, device_status, now>>

simulate_power_up ==
    /\ Len(communication_log) + 3 <= MaxLog
    /\ power_up
    /\ UNCHANGED outside

\* The body of simulate_control_command as it would be without the test of
\* is_connected.
control_command_unguarded(command, value) ==
    /\ \E t2 \in AfterSleep(now, 50) :
         LET control_data == <<1, 77, 1, value>>
             control_frame == build_frame(243, control_data, FALSE)
             ack_frame == build_frame(77, <<97, 128>>, FALSE)
             log1 == log_communication(
                       communication_log, now, "modem", control_frame,
                       "Control: " \o command \o "=" \o ToString(value))
             log2 == log_communication(log1, t2, "machine", ack_frame,
                                       "Control acknowledgment")
         IN  /\ communication_log' = log2
             /\ now' = t2
    /\ device_status' = update_device_status(device_status, command, value)
    /\ UNCHANGED <<frame_id, device_address, module_address, is_connected>>

\* The body of simulate_control_command(command, value).
control_command(command, value) ==
    \/ /\ ~is_connected
       /\ UNCHANGED inside
    \/ /\ is_connected
       /\ \E t2 \in AfterSleep(now, 50) :
            LET control_data == <<1, 77, 1, value>>
                control_frame == build_frame(243, control_data, FALSE)
                ack_frame == build_frame(77, <<97, 128>>, FALSE)
                log1 == log_communication(
                          communication_log, now, "modem", control_frame,
                          "Control: " \o command \o "=" \o ToString(value))
                log2 == log_communication(log1, t2, "machine", ack_frame,
                                          "Control acknowledgment")
            IN  /\ communication_log' = log2
                /\ now' = t2
       /\ device_status' = update_device_status(device_status, command, value)
       /\ UNCHANGED <<frame_id, device_address, module_address, is_connected>>

\* A call is made only while its entries fit in the log.
Fits == is_connected => Len(communication_log) + 2 <= MaxLog

simulate_control_command ==
    \E command \in Commands, value \in ControlValues :
      /\ Fits
      /\ control_command(command, value)
      /\ UNCHANGED outside

\* A report by one device acknowledged by the other after a sleep of d ms:
\* simulate_status_reporting, simulate_alarm, simulate_network_status_query.
\* The exchange as it would be without the test of is_connected.
Exchange_unguarded(src1, frame1, text1, d, src2, frame2, text2) ==
    /\ \E t2 \in AfterSleep(now, d) :
         LET log1 == log_communication(communication_log, now, src1,
                                       frame1, text1)
             log2 == log_communication(log1, t2, src2, frame2, text2)
         IN  /\ communication_log' = log2
             /\ now' = t2
    /\ UNCHANGED <<frame_id, device_address, module_address, is_connected,
                   device_status>>

Exchange(src1, frame1, text1, d, src2, frame2, text2) ==
    \/ /\ ~is_connected
       /\ UNCHANGED inside
    \/ /\ is_connected
       /\ \E t2 \in AfterSleep(now, d) :
            LET log1 == log_communication(communication_log, now, src1,
                                          frame1, text1)
                log2 == log_communication(log1, t2, src2, frame2, text2)
            IN  /\ communication_log' = log2
                /\ now' = t2
       /\ UNCHANGED <<frame_id, device_address, module_address, is_connected,
                      device_status>>

\* The bodies of simulate_status_reporting, simulate_alarm(alarm_type) and
\* simulate_network_status_query.
status_reporting ==
    Exchange("machine", build_frame(109, status_data, FALSE), "Status report",
             50,
             "modem", build_frame(77, <<97, 128>>, FALSE),
             "Status acknowledgment")

alarm(alarm_type) ==
    Exchange("machine", build_frame(18, alarm_data, FALSE),
             "Alarm: " \o alarm_type,
             30,
             "modem", build_frame(77, <<97, 128>>, FALSE),
             "Alarm acknowledgment")

network_status_query ==
    Exchange("modem", build_frame(247, query_data, FALSE),
             "Network status query",
             100,
             "machine", build_frame(245, network_status_data, FALSE),
             "Network status response")

simulate_status_reporting ==
    /\ Fits
    /\ status_reporting
    /\ UNCHANGED outside

simulate_alarm ==
    \E alarm_type \in {"temperature_high"} :
      /\ Fits
      /\ alarm(alarm_type)
      /\ UNCHANGED outside

simulate_network_status_query ==
    /\ Fits
    /\ network_status_query
    /\ UNCHANGED outside

\* A fresh simulator and the arguments of the build_frame calls made on it.
SimPayloads == {<<>>, <<HEADER_BYTE, 1>>}

InitSim ==
    /\ Init
    /\ call.data \in SimPayloads

Next ==
    \/ simulate_power_up
    \/ simulate_control_command
    \/ simulate_status_reporting
    \/ simulate_alarm
    \/ simulate_network_status_query
    \/ CallBuildFrame

Spec == InitSim /\ [][Next]_vars

\* C10. build_frame is deterministic and has no side effects: a call leaves
\* communication_log, is_connected, device_status, frame_id and both
\* addresses unchanged, does not modify the payload list passed in, and a
\* repeated call with the same arguments returns the same byte sequence,
\* whatever the simulator did in between.
BuildFramePure ==
    [][call'.calls = call.calls + 1 =>
         /\ UNCHANGED <<communication_log, is_connected, device_status,
                        frame_id, device_address, module_address>>
         /\ call'.data = call.data
         /\ call'.frame_type = call.frame_type
         /\ call'.use_crc = call.use_crc
         /\ call'.ret = build_frame(call.frame_type, call.data, call.use_crc)
         /\ (call.calls > 0 => call'.ret = call.ret)]_vars

\* build_frame has been called twice on a simulator that has logged traffic.
BuildFramePureWitness ==
    /\ call.op = "build_frame"
    /\ call.calls = 2
    /\ is_connected
    /\ Len(communication_log) = 5
    /\ call.data = <<HEADER_BYTE, 1>>

(***************************************************************************)
(* Part 2: the capture analysers.                                          *)
(*                                                                         *)
(* A capture line is "<device> <timestamp> - <hex text>".  The hex text is *)
(* modelled as the sequence of its characters, so that the string tests of *)
(* the analysers (==, startswith, in) are computed on text as Python       *)
(* computes them.                                                          *)
(***************************************************************************)
\* ' '.join(f"{b:02x}" for b in bytes) as a sequence of characters.
RECURSIVE HexText(_)
HexText(bytes) ==
    IF bytes = <<>> THEN <<>>
    ELSE LET b == bytes[Len(bytes)]
             digits == <<HexDigits[(b \div 16) + 1], HexDigits[(b % 16) + 1]>>
         IN  IF Len(bytes) = 1 THEN digits
             ELSE HexText(SubSeq(bytes, 1, Len(bytes) - 1)) \o <<" ">> \o digits

\* s.startswith(prefix)
startswith(s, prefix) ==
    /\ Len(prefix) <= Len(s)
    /\ \A j \in 1..Len(prefix) : s[j] = prefix[j]

\* pattern in s
contains(pattern, s) ==
    \E i \in 0..(Len(s) - Len(pattern)) :
        \A j \in 1..Len(pattern) : s[i + j] = pattern[j]

(***************************************************************************)
(* determine_state of src/state_machine_analysis.py.                       *)
(***************************************************************************)
\* The rules of determine_state, one per if statement, in the order of the
\* code: the text tested and the text searched for (given by their bytes), the
\* device required ("" when the rule names none) and the label returned.
Equals(bytes, state) ==
    [whole |-> TRUE, prefix |-> HexText(bytes), bytes |-> <<>>,
     pattern |-> <<>>, device |-> "", state |-> state]
Rule(prefix, pattern, device, state) ==
    [whole |-> FALSE, prefix |-> HexText(prefix), bytes |-> pattern,
     pattern |-> HexText(pattern), device |-> device, state |-> state]

Rules ==
    << Equals(<<0>>, "POWER_RESET"),
       Rule(<<255, 255, 10, 0>>, <<>>, "", "SESSION_START"),
       Rule(<<255, 255, 8, 64>>, <<112>>, "", "CONTROLLER_READY"),
       Rule(<<255, 255, 10, 64>>, <<1, 77, 1>>, "", "HANDSHAKE_INIT"),
       Rule(<<255, 255, 8, 64>>, <<115>>, "", "HANDSHAKE_ACK"),
       Rule(<<255, 255, 25, 64>>, <<17, 0, 240>>, "", "DEVICE_ID"),
       Rule(<<255, 255, 46, 64>>, <<98>>, "", "FIRMWARE_INFO"),
       Rule(<<255, 255, 46, 64>>, <<236>>, "", "MODEL_INFO"),
       Rule(<<255, 255, 44, 64>>, <<234>>, "", "SERIAL_INFO"),
       Rule(<<255, 255, 37, 64>>, <<>>, "machine", "AUTH_CHALLENGE"),
       Rule(<<255, 255, 37, 64>>, <<>>, "modem", "AUTH_RESPONSE"),
       Rule(<<255, 255, 67, 64>>, <<109, 1>>, "", "STATUS_RESPONSE"),
       Rule(<<255, 255, 70, 64>>, <<109, 2>>, "", "DATA_RESPONSE"),
       Rule(<<255, 255, 10, 64>>, <<243>>, "", "STATUS_QUERY"),
       Rule(<<255, 255, 10, 64>>, <<245>>, "", "QUERY_ACK"),
       Rule(<<255, 255, 14, 64>>, <<96>>, "", "PROGRAM_COMMAND"),
       Rule(<<255, 255, 12, 64>>, <<93, 31>>, "", "RESET_COMMAND"),
       Rule(<<255, 255, 18, 64>>, <<15, 90>>, "", "RESET_CONFIRM"),
       Rule(<<255, 255, 8, 64>>, <<77, 97>>, "", "HEARTBEAT_ACK"),
       Rule(<<255, 255, 8, 64>>, <<81, 100>>, "", "CONTROL_SIGNAL"),
       Rule(<<255, 255, 34, 64>>, <<247>>, "", "COMPLEX_COMMAND"),
       Rule(<<255, 255, 32, 64>>, <<17, 16, 0>>, "", "TIMESTAMP_SYNC") >>

\* The condition of one if statement of determine_state.
RuleHolds(r, data, device) ==
    IF r.whole THEN data = r.prefix
    ELSE /\ startswith(data, r.prefix)
         /\ contains(r.pattern, data)
         /\ (r.device = "" \/ device = r.device)

\* The rules whose condition holds for a line, by position in the code.
Matching(data, device) ==
    {k \in DOMAIN Rules : RuleHolds(Rules[k], data, device)}

\* The labels determine_state can return.
StateLabels == {Rules[k].state : k \in DOMAIN Rules} \cup {"UNKNOWN"}

Min(S) == CHOOSE x \in S : \A y \in S : x <= y
Max(S) == CHOOSE x \in S : \A y \in S : x >= y

\* Mutant: the last rule whose condition holds decides.
determine_state_last_match(data, device) ==
    LET m == Matching(data, device)
    IN  IF m = {} THEN "UNKNOWN" ELSE Rules[Max(m)].state

\* Mutant: the device is not looked at, every line is read as the machine's.
determine_state_device_blind(data, device) ==
    LET m == Matching(data, "machine")
    IN  IF m = {} THEN "UNKNOWN" ELSE Rules[Min(m)].state

\* Mutant: the HANDSHAKE_ACK test is made before the CONTROLLER_READY test.
determine_state_ack_first(data, device) ==
    IF data = HexText(<<0>>) THEN "POWER_RESET"
    ELSE IF startswith(data, HexText(<<255, 255, 10, 0>>)) THEN "SESSION_START"
    ELSE IF startswith(data, HexText(<<255, 255, 8, 64>>))
            /\ contains(HexText(<<115>>), data) THEN "HANDSHAKE_ACK"
    ELSE IF startswith(data, HexText(<<255, 255, 8, 64>>))
            /\ contains(HexText(<<112>>), data) THEN "CONTROLLER_READY"
    ELSE IF startswith(data, HexText(<<255, 255, 10, 64>>))
            /\ contains(HexText(<<1, 77, 1>>), data) THEN "HANDSHAKE_INIT"
    ELSE IF startswith(data, HexText(<<255, 255, 25, 64>>))
            /\ contains(HexText(<<17, 0, 240>>), data) THEN "DEVICE_ID"
    ELSE IF startswith(data, HexText(<<255, 255, 46, 64>>))
            /\ contains(HexText(<<98>>), data) THEN "FIRMWARE_INFO"
    ELSE IF startswith(data, HexText(<<255, 255, 46, 64>>))
            /\ contains(HexText(<<236>>), data) THEN "MODEL_INFO"
    ELSE IF startswith(data, HexText(<<255, 255, 44, 64>>))
            /\ contains(HexText(<<234>>), data) THEN "SERIAL_INFO"
    ELSE IF startswith(data, HexText(<<255, 255, 37, 64>>))
            /\ device = "machine" THEN "AUTH_CHALLENGE"
    ELSE IF startswith(data, HexText(<<255, 255, 37, 64>>))
            /\ device = "modem" THEN "AUTH_RESPONSE"
    ELSE IF startswith(data, HexText(<<255, 255, 67, 64>>))
            /\ contains(HexText(<<109, 1>>), data) THEN "STATUS_RESPONSE"
    ELSE IF startswith(data, HexText(<<255, 255, 70, 64>>))
            /\ contains(HexText(<<109, 2>>), data) THEN "DATA_RESPONSE"
    ELSE IF startswith(data, HexText(<<255, 255, 10, 64>>))
            /\ contains(HexText(<<243>>), data) THEN "STATUS_QUERY"
    ELSE IF startswith(data, HexText(<<255, 255, 10, 64>>))
            /\ contains(HexText(<<245>>), data) THEN "QUERY_ACK"
    ELSE IF startswith(data, HexText(<<255, 255, 14, 64>>))
            /\ contains(HexText(<<96>>), data) THEN "PROGRAM_COMMAND"
    ELSE IF startswith(data, HexText(<<255, 255, 12, 64>>))
            /\ contains(HexText(<<93, 31>>), data) THEN "RESET_COMMAND"
    ELSE IF startswith(data, HexText(<<255, 255, 18, 64>>))
            /\ contains(HexText(<<15, 90>>), data) THEN "RESET_CONFIRM"
    ELSE IF startswith(data, HexText(<<255, 255, 8, 64>>))
            /\ contains(HexText(<<77, 97>>), data) THEN "HEARTBEAT_ACK"
    ELSE IF startswith(data, HexText(<<255, 255, 8, 64>>))
            /\ contains(HexText(<<81, 100>>), data) THEN "CONTROL_SIGNAL"
    ELSE IF startswith(data, HexText(<<255, 255, 34, 64>>))
            /\ contains(HexText(<<247>>), data) THEN "COMPLEX_COMMAND"
    ELSE IF startswith(data, HexText(<<255, 255, 32, 64>>))
            /\ contains(HexText(<<17, 16, 0>>), data) THEN "TIMESTAMP_SYNC"
    ELSE "UNKNOWN"

determine_state(data, device) ==
    \* "00"
    IF data = HexText(<<0>>) THEN "POWER_RESET"
    \* "ff ff 0a 00"
    ELSE IF startswith(data, HexText(<<255, 255, 10, 0>>)) THEN "SESSION_START"
    \* "ff ff 08 40", "70"
    ELSE IF startswith(data, HexText(<<255, 255, 8, 64>>))
            /\ contains(HexText(<<112>>), data) THEN "CONTROLLER_READY"
    \* "ff ff 0a 40", "01 4d 01"
    ELSE IF startswith(data, HexText(<<255, 255, 10, 64>>))
            /\ contains(HexText(<<1, 77, 1>>), data) THEN "HANDSHAKE_INIT"
    \* "ff ff 08 40", "73"
    ELSE IF startswith(data, HexText(<<255, 255, 8, 64>>))
            /\ contains(HexText(<<115>>), data) THEN "HANDSHAKE_ACK"
    \* "ff ff 19 40", "11 00 f0"
    ELSE IF startswith(data, HexText(<<255, 255, 25, 64>>))
            /\ contains(HexText(<<17, 0, 240>>), data) THEN "DEVICE_ID"
    \* "ff ff 2e 40", "62"
    ELSE IF startswith(data, HexText(<<255, 255, 46, 64>>))
            /\ contains(HexText(<<98>>), data) THEN "FIRMWARE_INFO"
    \* "ff ff 2e 40", "ec"
    ELSE IF startswith(data, HexText(<<255, 255, 46, 64>>))
            /\ contains(HexText(<<236>>), data) THEN "MODEL_INFO"
    \* "ff ff 2c 40", "ea"
    ELSE IF startswith(data, HexText(<<255, 255, 44, 64>>))
            /\ contains(HexText(<<234>>), data) THEN "SERIAL_INFO"
    \* "ff ff 25 40"
    ELSE IF startswith(data, HexText(<<255, 255, 37, 64>>))
            /\ device = "machine" THEN "AUTH_CHALLENGE"
    ELSE IF startswith(data, HexText(<<255, 255, 37, 64>>))
            /\ device = "modem" THEN "AUTH_RESPONSE"
    \* "ff ff 43 40", "6d 01"
    ELSE IF startswith(data, HexText(<<255, 255, 67, 64>>))
            /\ contains(HexText(<<109, 1>>), data) THEN "STATUS_RESPONSE"
    \* "ff ff 46 40", "6d 02"
    ELSE IF startswith(data, HexText(<<255, 255, 70, 64>>))
            /\ contains(HexText(<<109, 2>>), data) THEN "DATA_RESPONSE"
    \* "ff ff 0a 40", "f3"
    ELSE IF startswith(data, HexText(<<255, 255, 10, 64>>))
            /\ contains(HexText(<<243>>), data) THEN "STATUS_QUERY"
    \* "ff ff 0a 40", "f5"
    ELSE IF startswith(data, HexText(<<255, 255, 10, 64>>))
            /\ contains(HexText(<<245>>), data) THEN "QUERY_ACK"
    \* "ff ff 0e 40", "60"
    ELSE IF startswith(data, HexText(<<255, 255, 14, 64>>))
            /\ contains(HexText(<<96>>), data) THEN "PROGRAM_COMMAND"
    \* "ff ff 0c 40", "5d 1f"
    ELSE IF startswith(data, HexText(<<255, 255, 12, 64>>))
            /\ contains(HexText(<<93, 31>>), data) THEN "RESET_COMMAND"
    \* "ff ff 12 40", "0f 5a"
    ELSE IF startswith(data, HexText(<<255, 255, 18, 64>>))
            /\ contains(HexText(<<15, 90>>), data) THEN "RESET_CONFIRM"
    \* "ff ff 08 40", "4d 61"
    ELSE IF startswith(data, HexText(<<255, 255, 8, 64>>))
            /\ contains(HexText(<<77, 97>>), data) THEN "HEARTBEAT_ACK"
    \* "ff ff 08 40", "51 64"
    ELSE IF startswith(data, HexText(<<255, 255, 8, 64>>))
            /\ contains(HexText(<<81, 100>>), data) THEN "CONTROL_SIGNAL"
    \* "ff ff 22 40", "f7"
    ELSE IF startswith(data, HexText(<<255, 255, 34, 64>>))
            /\ contains(HexText(<<247>>), data) THEN "COMPLEX_COMMAND"
    \* "ff ff 20 40", "11 10 00"
    ELSE IF startswith(data, HexText(<<255, 255, 32, 64>>))
            /\ contains(HexText(<<17, 16, 0>>), data) THEN "TIMESTAMP_SYNC"
    ELSE "UNKNOWN"

(***************************************************************************)
(* Calls of determine_state on lines of a capture.                         *)
(***************************************************************************)
\* Chunks of frame body joined after the first nine bytes of a line.
MaxChunks == 2

\* The first four bytes of a frame line: "ff ff 0a 00", the twelve
\* "ff ff <length> 40" beginnings determine_state tests, and "ff ff 30 40",
\* which no rule tests.
LengthBytes == {8, 10, 25, 46, 44, 37, 67, 70, 14, 12, 18, 34, 32, 48}
Heads == {<<255, 255, 10, 0>>} \cup {<<255, 255, l, 64>> : l \in LengthBytes}

\* The byte patterns determine_state searches for, in the order of their
\* rules, after a byte (0x05) that belongs to none of them.
PatternRules == SelectSeq(Rules, LAMBDA r : r.bytes # <<>>)
ChunkAt(i) == IF i = 0 THEN <<5>> ELSE PatternRules[i].bytes
Chunks == {ChunkAt(i) : i \in 0..Len(PatternRules)}

\* The frame bodies made of at most n chunks numbered i or more, each chunk
\* used once and in the order of the numbering.
RECURSIVE BodiesFrom(_, _)
BodiesFrom(i, n) ==
    IF n = 0 \/ i > Len(PatternRules) THEN {<<>>}
    ELSE BodiesFrom(i + 1, n)
            \cup {ChunkAt(i) \o b : b \in BodiesFrom(i + 1, n - 1)}

Bodies(n) == BodiesFrom(0, n)

\* The line of a power-cycle marker and the SESSION_START line of the
\* captures.
MarkerLine == HexText(<<0>>)
SessionStartLine == HexText(<<255, 255, 10, 0, 0, 0, 0, 0, 0, 0, 0, 0, 0>>)

Lines ==
    {HexText(h \o <<0, 0, 0, 0, 0>> \o b) : h \in Heads, b \in Bodies(MaxChunks)}
        \cup {MarkerLine, SessionStartLine}

\* prefix.split()[0] of a capture line: the two devices of the captures and
\* any other first word.
Devices == {"modem", "machine", "other"}

ClassifyInputs ==
    [op : {"input"}, data : Lines, device : Devices, state : {""},
     calls : {0}]

InitClassify ==
    /\ Constructed
    /\ call = CHOOSE c \in Inputs : TRUE
    /\ capture = NoCapture
    /\ run \in ClassifyInputs

\* determine_state(run.data, run.device); a repeated call passes the same
\* arguments again.
CallDetermineState ==
    /\ run.op \in {"input", "determine_state"}
    /\ run.calls < MaxCalls
    /\ run' = [run EXCEPT !.op = "determine_state",
                          !.state = determine_state(run.data, run.device),
                          !.calls = @ + 1]
    /\ UNCHANGED <<simvars, now, call, capture>>

SpecClassify == InitClassify /\ [][CallDetermineState]_vars

Classified == run.op = "determine_state"

\* C11. determine_state returns exactly one label of the closed set of 23
\* states: the label of the first rule, in the order of the code, whose
\* condition holds, and UNKNOWN exactly when no rule's condition holds.
FirstRuleWins ==
    Classified =>
        /\ Cardinality(StateLabels) = 23
        /\ run.state \in StateLabels
        /\ LET m == Matching(run.data, run.device)
           IN  /\ (m = {}) <=> (run.state = "UNKNOWN")
               /\ m # {} => run.state = Rules[Min(m)].state

\* An authentication line from a device that is neither machine nor modem
\* matches no rule and is UNKNOWN.
FirstRuleWinsWitness ==
    /\ Classified
    /\ startswith(run.data, HexText(<<255, 255, 37, 64>>))
    /\ run.device = "other"
    /\ run.state = "UNKNOWN"

\* The State enumeration of the design, in its order of priority.
StateOrder ==
    << "POWER_RESET", "SESSION_START", "CONTROLLER_READY", "HANDSHAKE_INIT",
       "HANDSHAKE_ACK", "DEVICE_ID", "FIRMWARE_INFO", "MODEL_INFO",
       "SERIAL_INFO", "AUTH_CHALLENGE", "AUTH_RESPONSE", "STATUS_QUERY",
       "STATUS_RESPONSE", "DATA_RESPONSE", "QUERY_ACK", "PROGRAM_COMMAND",
       "RESET_COMMAND", "RESET_CONFIRM", "HEARTBEAT_ACK", "CONTROL_SIGNAL",
       "COMPLEX_COMMAND", "TIMESTAMP_SYNC", "UNKNOWN" >>

Position(state) == CHOOSE i \in DOMAIN StateOrder : StateOrder[i] = state

\* The labels of the rules whose condition holds for the classified line.
MatchingStates == {Rules[k].state : k \in Matching(run.data, run.device)}

\* C12. When a line meets the conditions of two or more rules, determine_state
\* returns, of their states, the one that comes earliest in the State
\* enumeration.
PriorityFollowsEnumeration ==
    Classified =>
        \A state \in MatchingStates : Position(run.state) <= Position(state)

\* A line that meets the conditions of two rules with different labels has
\* been classified.
PriorityWitness ==
    /\ Classified
    /\ Cardinality(MatchingStates) >= 2

\* C13. The SESSION_START line of the captures classifies as SESSION_START
\* from either device; every line starting with "ff ff 25 40" classifies as
\* AUTH_CHALLENGE from machine and as AUTH_RESPONSE from modem, whatever bytes
\* follow; a repeated call with the same input returns the same state.
ClassificationDeterminism ==
    [][run'.op = "determine_state" =>
         /\ (run'.data = SessionStartLine /\ run'.device \in {"modem", "machine"})
                => run'.state = "SESSION_START"
         /\ startswith(run'.data, HexText(<<255, 255, 37, 64>>)) =>
                /\ run'.device = "machine" => run'.state = "AUTH_CHALLENGE"
                /\ run'.device = "modem" => run'.state = "AUTH_RESPONSE"
         /\ run.op = "determine_state" =>
                /\ run'.data = run.data
                /\ run'.device = run.device
                /\ run'.state = run.state]_vars

\* An authentication line of the modem carrying pattern bytes of other rules
\* has been classified twice as AUTH_RESPONSE.
ClassificationWitness ==
    /\ Classified
    /\ run.calls = 2
    /\ startswith(run.data, HexText(<<255, 255, 37, 64>>))
    /\ Len(run.data) > Len(HexText(<<255, 255, 37, 64, 0, 0, 0, 0, 0>>))
    /\ run.device = "modem"
    /\ run.state = "AUTH_RESPONSE"

(***************************************************************************)
(* Two frames that differ in their last byte only.                         *)
(***************************************************************************)
\* The bytes tried in the last position: the one-byte patterns of the rules
\* and 0x05.
TailBytes == {c[1] : c \in {d \in Chunks : Len(d) = 1}}

\* The line with its last byte replaced by v.
with_last_byte(data, v) ==
    SubSeq(data, 1, Len(data) - 2) \o HexText(<<v>>)

\* The shortest frame line that has a payload byte before its checksum:
\* header, length, address identifier, type, one payload byte, checksum.
ShortestPayloadFrame == HexText(frame_before_stuffing(0, <<0>>, FALSE))

\* determine_state on a second line of the same device, equal to run.data in
\* every byte but the last, which follows at least one payload byte.
CallOnTwin ==
    /\ run.op = "determine_state"
    /\ Len(run.data) >= Len(ShortestPayloadFrame)
    /\ \E v \in TailBytes :
         LET twin == with_last_byte(run.data, v)
         IN  /\ twin # run.data
             /\ run' = [op |-> "twin", data |-> run.data,
                        device |-> run.device, state |-> run.state,
                        calls |-> run.calls, twin |-> twin,
                        twin_state |-> determine_state(twin, run.device)]
    /\ UNCHANGED <<simvars, now, call, capture>>

ClassifyTailNext == CallDetermineState \/ CallOnTwin

SpecClassifyTail == InitClassify /\ [][ClassifyTailNext]_vars

\* C14. The state depends only on the type value, the payload prefix and the
\* device: two lines of one device that agree on header, length, address
\* bytes, type and payload prefix, and differ in a later byte only (the last
\* one, where the checksum is), classify to the same state.
TailIndependence ==
    run.op = "twin" => run.twin_state = run.state

(***************************************************************************)
(* Captures: the well-formed lines "<device> <timestamp> - <data>" of a    *)
(* capture file, in file order and in time order.                          *)
(***************************************************************************)
\* Lines of a capture.
MaxLines == 4

\* Seconds from one line to the next: inside the 5-second window of a
\* power cycle, and beyond the 30-second gap between power cycles.
Gaps == {3, 37}

CaptureDevices == {"modem", "machine"}

last_timestamp(c) == IF c = <<>> THEN 0 ELSE c[Len(c)].timestamp

\* The captures of at most n lines whose data are drawn from datas.
RECURSIVE CapturesOf(_, _)
CapturesOf(datas, n) ==
    IF n = 0 THEN {<<>>}
    ELSE LET shorter == CapturesOf(datas, n - 1)
         IN  shorter \cup
             {Append(c, [timestamp |-> last_timestamp(c) + g, device |-> d,
                         data |-> x]) :
                 c \in {e \in shorter : Len(e) = n - 1},
                 g \in Gaps, d \in CaptureDevices, x \in datas}

(***************************************************************************)
(* src/state_machine_analysis.py: the classified states of a capture and   *)
(* their grouping at POWER_RESET.                                          *)
(***************************************************************************)
\* extract_state_transitions: the states list.
extract_state_transitions(c) ==
    [i \in 1..Len(c) |->
        [timestamp |-> c[i].timestamp, device |-> c[i].device,
         data |-> c[i].data,
         state |-> determine_state(c[i].data, c[i].device), line |-> i]]

\* What the grouping loops collect: analyze_state_machine the label
\* state['state'], analyze_power_cycle_impact the state itself.
item(labels, state) == IF labels THEN state.state ELSE state

\* The loop shared by analyze_state_machine (sequences, current_sequence)
\* and analyze_power_cycle_impact (power_cycles, current_cycle): the lists
\* closed and the list being built after the first n states.
RECURSIVE split_loop(_, _, _)
split_loop(labels, states, n) ==
    IF n = 0 THEN [closed |-> <<>>, current |-> <<>>]
    ELSE LET before == split_loop(labels, states, n - 1)
             state == states[n]
         IN  IF state.state = "POWER_RESET"
             THEN [closed |-> IF before.current # <<>>
                              THEN Append(before.closed, before.current)
                              ELSE before.closed,
                   current |-> <<item(labels, state)>>]
             ELSE [closed |-> before.closed,
                   current |-> Append(before.current, item(labels, state))]

\* Mutant: the list being built at the end of the capture is not appended.
split_at_power_reset_unflushed(labels, states) ==
    split_loop(labels, states, Len(states)).closed

\* The loop followed by the append of the last list when it is not empty.
split_at_power_reset(labels, states) ==
    LET after == split_loop(labels, states, Len(states))
    IN  IF after.current # <<>> THEN Append(after.closed, after.current)
        ELSE after.closed

(***************************************************************************)
(* src/analyze_rolling.py and src/detailed_rolling_analysis.py: the        *)
(* power-cycle markers of a capture and their grouping into cycles.        *)
(***************************************************************************)
\* parse_rolling_data, extract_rolling_codes: power_cycles, the (timestamp,
\* device) of every line whose data is "00".
RECURSIVE marker_list(_, _)
marker_list(c, n) ==
    IF n = 0 THEN <<>>
    ELSE IF c[n].data = HexText(<<0>>)
         THEN Append(marker_list(c, n - 1),
                     [timestamp |-> c[n].timestamp, device |-> c[n].device])
         ELSE marker_list(c, n - 1)

parse_power_cycles(c) == marker_list(c, Len(c))

\* The loop of analyze_power_cycles (cycles, current_cycle) and of
\* analyze_power_cycle_impact (cycle_groups, current_group) after the first
\* n markers.
RECURSIVE cycle_loop(_, _)
cycle_loop(power_cycles, n) ==
    IF n = 0 THEN [cycles |-> <<>>, current_cycle |-> <<>>]
    ELSE LET before == cycle_loop(power_cycles, n - 1)
             marker == power_cycles[n]
             current_cycle == before.current_cycle
         IN  IF current_cycle = <<>>
             THEN [cycles |-> before.cycles, current_cycle |-> <<marker>>]
             ELSE LET last_ts == current_cycle[Len(current_cycle)].timestamp
                  IN  IF marker.timestamp - last_ts <= 5
                      THEN [cycles |-> before.cycles,
                            current_cycle |-> Append(current_cycle, marker)]
                      ELSE [cycles |-> IF Len(current_cycle) >= 2
                                       THEN Append(before.cycles, current_cycle)
                                       ELSE before.cycles,
                            current_cycle |-> <<marker>>]

\* The loop followed by the append of the last cycle when it has two
\* markers or more.
group_power_cycles(power_cycles) ==
    LET after == cycle_loop(power_cycles, Len(power_cycles))
    IN  IF Len(after.current_cycle) >= 2
        THEN Append(after.cycles, after.current_cycle)
        ELSE after.cycles

(***************************************************************************)
(* Runs of the session and power-cycle analysers on a capture.             *)
(***************************************************************************)
\* Lines of the captures analysed: power-cycle markers and frames.
SessionData == {MarkerLine, SessionStartLine}

InitSessions ==
    /\ Constructed
    /\ call = CHOOSE c \in Inputs : TRUE
    /\ capture \in CapturesOf(SessionData, MaxLines)
    /\ run = [op |-> "input"]

\* state_machine_analysis.main up to analyze_state_machine.
analyze_state_machine ==
    /\ run.op = "input"
    /\ LET states == extract_state_transitions(capture)
       IN  run' = [op |-> "analyze_state_machine", states |-> states,
                   sequences |-> split_at_power_reset(TRUE, states)]
    /\ UNCHANGED <<simvars, now, call, capture>>

\* state_machine_analysis.main up to analyze_power_cycle_impact.
analyze_power_cycle_impact ==
    /\ run.op = "input"
    /\ LET states == extract_state_transitions(capture)
       IN  run' = [op |-> "analyze_power_cycle_impact", states |-> states,
                   power_cycles |-> split_at_power_reset(FALSE, states)]
    /\ UNCHANGED <<simvars, now, call, capture>>

\* analyze_rolling.main up to analyze_power_cycles.
analyze_power_cycles ==
    /\ run.op = "input"
    /\ LET power_cycles == parse_power_cycles(capture)
       IN  run' = [op |-> "analyze_power_cycles",
                   power_cycles |-> power_cycles,
                   cycles |-> group_power_cycles(power_cycles)]
    /\ UNCHANGED <<simvars, now, call, capture>>

\* detailed_rolling_analysis.main up to the grouping of
\* analyze_power_cycle_impact.
detailed_power_cycle_impact ==
    /\ run.op = "input"
    /\ LET power_cycles == parse_power_cycles(capture)
       IN  run' = [op |-> "detailed_power_cycle_impact",
                   power_cycles |-> power_cycles,
                   cycles |-> group_power_cycles(power_cycles)]
    /\ UNCHANGED <<simvars, now, call, capture>>

SessionsNext ==
    \/ analyze_state_machine
    \/ analyze_power_cycle_impact
    \/ analyze_power_cycles
    \/ detailed_power_cycle_impact

SpecSessions == InitSessions /\ [][SessionsNext]_vars

IsMarker(state) == state.state = "POWER_RESET"

\* A power-cycle marker pair: the marker m and a marker of the other device
\* at most 5 seconds before or after it.
InPair(states, m) ==
    \E j \in DOMAIN states :
        /\ IsMarker(states[j])
        /\ {states[j].device, m.device} = {"modem", "machine"}
        /\ states[j].timestamp - m.timestamp <= 5
        /\ m.timestamp - states[j].timestamp <= 5

\* C15. A session is closed and a new one opened only by a power-cycle
\* marker pair: no session is one POWER_RESET frame of a pair alone, and
\* every session after the first begins at a marker that belongs to a pair
\* (a lone marker does not split a session).
SessionsSplitAtPairsOnly ==
    run.op = "analyze_power_cycle_impact" =>
        \A i \in DOMAIN run.power_cycles :
            LET session == run.power_cycles[i]
            IN  /\ ~(/\ Len(session) = 1
                     /\ IsMarker(session[1])
                     /\ InPair(run.states, session[1]))
                /\ i > 1 => /\ IsMarker(session[1])
                            /\ InPair(run.states, session[1])

\* C16. Every group of markers counted as a power cycle holds a marker of
\* the modem and a marker of the machine.
CycleHasBothDevices ==
    run.op \in {"analyze_power_cycles", "detailed_power_cycle_impact"} =>
        \A i \in DOMAIN run.cycles :
            \A d \in {"modem", "machine"} :
                \E k \in DOMAIN run.cycles[i] : run.cycles[i][k].device = d

\* C17. In every group analyze_power_cycles counts as a power cycle, the
\* latest marker is at most 5 seconds after the earliest.
CycleWithinWindow ==
    run.op = "analyze_power_cycles" =>
        \A i \in DOMAIN run.cycles :
            \A k, l \in DOMAIN run.cycles[i] :
                run.cycles[i][k].timestamp - run.cycles[i][l].timestamp <= 5

\* A frame after a session, a marker of the modem at t, a marker of the
\* machine at t + 3 and a frame at t + 40, at positions i - 1 to i + 2.
BoundaryScenario(states, i) ==
    /\ i - 1 \in DOMAIN states
    /\ i + 2 \in DOMAIN states
    /\ ~IsMarker(states[i - 1])
    /\ IsMarker(states[i]) /\ states[i].device = "modem"
    /\ IsMarker(states[i + 1]) /\ states[i + 1].device = "machine"
    /\ states[i + 1].timestamp = states[i].timestamp + 3
    /\ ~IsMarker(states[i + 2])
    /\ states[i + 2].timestamp = states[i].timestamp + 40

\* C18. In that scenario the session open before the markers is closed (it
\* ends with the frame before them) and a new session is opened at t + 40
\* that contains the frame of t + 40.
SessionBoundary ==
    run.op = "analyze_power_cycle_impact" =>
        \A i \in DOMAIN run.states :
            BoundaryScenario(run.states, i) =>
                /\ \E k \in DOMAIN run.power_cycles :
                       LET session == run.power_cycles[k]
                       IN  session[Len(session)] = run.states[i - 1]
                /\ \E k \in DOMAIN run.power_cycles :
                       LET session == run.power_cycles[k]
                       IN  /\ \E j \in DOMAIN session :
                                  session[j] = run.states[i + 2]
                           /\ session[1].timestamp
                                  = run.states[i + 2].timestamp

RECURSIVE concatenated(_, _)
concatenated(groups, n) ==
    IF n = 0 THEN <<>> ELSE concatenated(groups, n - 1) \o groups[n]

\* C19. Session grouping loses and duplicates no classified frame: the
\* sessions are not empty and, concatenated in order, they give back the
\* full list of states of the capture, frames before the first marker and
\* after the last one included.
NoFrameLostOrDuplicated ==
    /\ run.op = "analyze_state_machine" =>
          /\ \A i \in DOMAIN run.sequences : run.sequences[i] # <<>>
          /\ concatenated(run.sequences, Len(run.sequences))
                = [i \in DOMAIN run.states |-> run.states[i].state]
    /\ run.op = "analyze_power_cycle_impact" =>
          /\ \A i \in DOMAIN run.power_cycles : run.power_cycles[i] # <<>>
          /\ concatenated(run.power_cycles, Len(run.power_cycles))
                = run.states

\* A capture with a frame before its first marker and a frame after its
\* last marker has been grouped into sessions.
NoFrameLostWitness ==
    /\ run.op = "analyze_power_cycle_impact"
    /\ Len(run.states) = 4
    /\ ~IsMarker(run.states[1])
    /\ IsMarker(run.states[2])
    /\ IsMarker(run.states[3])
    /\ ~IsMarker(run.states[4])
    /\ Len(run.power_cycles) = 3

(***************************************************************************)
(* Challenge-response pairing: analyze_authentication_flow of              *)
(* src/state_machine_analysis.py and analyze_rolling_code_algorithm of     *)
(* src/crypto_analysis.py.                                                 *)
(***************************************************************************)
\* zip(challenges, responses)
zip(challenges, responses) ==
    [i \in 1..Min({Len(challenges), Len(responses)}) |->
        [challenge |-> challenges[i], response |-> responses[i]]]

IsAuth(state) == state.state \in {"AUTH_CHALLENGE", "AUTH_RESPONSE"}

\* The loop of analyze_authentication_flow (auth_sequences, current_auth)
\* after the first n states.
RECURSIVE auth_loop(_, _)
auth_loop(states, n) ==
    IF n = 0 THEN [auth_sequences |-> <<>>, current_auth |-> <<>>]
    ELSE LET before == auth_loop(states, n - 1)
         IN  IF IsAuth(states[n])
             THEN [auth_sequences |-> before.auth_sequences,
                   current_auth |-> Append(before.current_auth, states[n])]
             ELSE IF before.current_auth # <<>>
             THEN [auth_sequences |->
                       Append(before.auth_sequences, before.current_auth),
                   current_auth |-> <<>>]
             ELSE before

find_auth_sequences(states) ==
    LET after == auth_loop(states, Len(states))
    IN  IF after.current_auth # <<>>
        THEN Append(after.auth_sequences, after.current_auth)
        ELSE after.auth_sequences

\* The (challenge, response) pairs whose timing analyze_authentication_flow
\* reports for one authentication sequence.
flow_pairs(sequence) ==
    LET challenges ==
            SelectSeq(sequence, LAMBDA st : st.state = "AUTH_CHALLENGE")
        responses ==
            SelectSeq(sequence, LAMBDA st : st.state = "AUTH_RESPONSE")
    IN  IF challenges # <<>> /\ responses # <<>>
        THEN zip(challenges, responses) ELSE <<>>

\* data.split(): the words of a line of hex text.
split(data) ==
    [i \in 1..((Len(data) + 1) \div 3) |-> SubSeq(data, 3 * i - 2, 3 * i - 1)]

\* "".join(hex_parts[lo:hi]), in the positions 0, 1, ... of Python.
RECURSIVE join(_, _, _)
join(hex_parts, lo, hi) ==
    IF lo >= hi \/ lo >= Len(hex_parts) THEN <<>>
    ELSE hex_parts[lo + 1] \o join(hex_parts, lo + 1, hi)

\* crypto_analysis.extract_rolling_codes: the "ff ff 25 40" lines of 15
\* words or more.
RECURSIVE rolling_code_list(_, _)
rolling_code_list(c, n) ==
    IF n = 0 THEN <<>>
    ELSE LET hex_parts == split(c[n].data)
         IN  IF /\ startswith(c[n].data, HexText(<<255, 255, 37, 64>>))
                /\ Len(hex_parts) >= 15
             THEN Append(rolling_code_list(c, n - 1),
                         [timestamp |-> c[n].timestamp,
                          device |-> c[n].device,
                          challenge |-> join(hex_parts, 8, 16),
                          response |-> join(hex_parts, 16, Len(hex_parts)),
                          full_data |-> c[n].data])
             ELSE rolling_code_list(c, n - 1)

extract_rolling_codes(c) == rolling_code_list(c, Len(c))

\* The loop of analyze_rolling_code_algorithm (power_cycles, current_cycle)
\* after the first n rolling codes.
RECURSIVE code_cycle_loop(_, _)
code_cycle_loop(rolling_codes, n) ==
    IF n = 0 THEN [power_cycles |-> <<>>, current_cycle |-> <<>>]
    ELSE LET before == code_cycle_loop(rolling_codes, n - 1)
             code == rolling_codes[n]
             current_cycle == before.current_cycle
         IN  IF current_cycle = <<>>
             THEN [power_cycles |-> before.power_cycles,
                   current_cycle |-> <<code>>]
             ELSE LET time_diff ==
                          code.timestamp
                              - current_cycle[Len(current_cycle)].timestamp
                  IN  IF time_diff > 30
                      THEN [power_cycles |->
                                IF Len(current_cycle) > 1
                                THEN Append(before.power_cycles, current_cycle)
                                ELSE before.power_cycles,
                            current_cycle |-> <<code>>]
                      ELSE [power_cycles |-> before.power_cycles,
                            current_cycle |-> Append(current_cycle, code)]

code_cycles(rolling_codes) ==
    LET after == code_cycle_loop(rolling_codes, Len(rolling_codes))
    IN  IF Len(after.current_cycle) > 1
        THEN Append(after.power_cycles, after.current_cycle)
        ELSE after.power_cycles

\* The (challenge, response) pairs analyze_rolling_code_algorithm prints for
\* one power cycle.
cycle_pairs(cycle) ==
    LET challenges == SelectSeq(cycle, LAMBDA code : code.device = "machine")
        responses == SelectSeq(cycle, LAMBDA code : code.device = "modem")
    IN  IF challenges # <<>> /\ responses # <<>>
        THEN zip(challenges, responses) ELSE <<>>

\* An authentication line: "ff ff 25 40", five zero bytes, "11 10 02 00 01"
\* and two bytes of rolling code.
AuthLine == HexText(<<255, 255, 37, 64, 0, 0, 0, 0, 0, 17, 16, 2, 0, 1, 5, 5>>)

AuthData == {AuthLine, SessionStartLine}

InitAuth ==
    /\ Constructed
    /\ call = CHOOSE c \in Inputs : TRUE
    /\ capture \in CapturesOf(AuthData, MaxLines)
    /\ run = [op |-> "input"]

\* state_machine_analysis.main up to analyze_authentication_flow: the
\* authentication sequences and the pairs of each.
analyze_authentication_flow ==
    /\ run.op = "input"
    /\ LET states == extract_state_transitions(capture)
           auth_sequences == find_auth_sequences(states)
       IN  run' = [op |-> "analyze_authentication_flow",
                   sessions |-> auth_sequences,
                   pairs |-> [k \in DOMAIN auth_sequences |->
                                 flow_pairs(auth_sequences[k])]]
    /\ UNCHANGED <<simvars, now, call, capture>>

\* crypto_analysis.main up to analyze_rolling_code_algorithm: the power
\* cycles of rolling codes and the pairs of each.
analyze_rolling_code_algorithm ==
    /\ run.op = "input"
    /\ LET power_cycles == code_cycles(extract_rolling_codes(capture))
       IN  run' = [op |-> "analyze_rolling_code_algorithm",
                   sessions |-> power_cycles,
                   pairs |-> [k \in DOMAIN power_cycles |->
                                 cycle_pairs(power_cycles[k])]]
    /\ UNCHANGED <<simvars, now, call, capture>>

AuthNext == analyze_authentication_flow \/ analyze_rolling_code_algorithm

SpecAuth == InitAuth /\ [][AuthNext]_vars

Paired == run.op \in {"analyze_authentication_flow",
                      "analyze_rolling_code_algorithm"}

\* The challenges of session k: the messages of the machine.
ChallengesOf(k) ==
    SelectSeq(run.sessions[k], LAMBDA m : m.device = "machine")

\* C20. FIFO pairing: a response is paired with a challenge that arrived
\* before it, never with one that arrives later, and that challenge is the
\* oldest one pending: every earlier challenge of the session was paired with
\* an earlier response.
FifoPairing ==
    Paired =>
        \A k \in DOMAIN run.pairs : \A i \in DOMAIN run.pairs[k] :
            LET pair == run.pairs[k][i]
            IN  /\ pair.challenge.timestamp < pair.response.timestamp
                /\ \A j \in DOMAIN ChallengesOf(k) :
                       ChallengesOf(k)[j].timestamp < pair.challenge.timestamp
                       => \E h \in DOMAIN run.pairs[k] :
                              /\ run.pairs[k][h].challenge = ChallengesOf(k)[j]
                              /\ run.pairs[k][h].response.timestamp
                                     < pair.response.timestamp

(***************************************************************************)
(* src/convert_hex_to_binary.py and src/extract_auth_sequences.py: the     *)
(* capture rewritten as binary text, and the challenges, responses and     *)
(* pairs found in it.                                                      *)
(***************************************************************************)
\* int(hex_digit, 16)
hex_value(ch) == (CHOOSE i \in DOMAIN HexDigits : HexDigits[i] = ch) - 1

\* 2 ** n
RECURSIVE pow2(_)
pow2(n) == IF n = 0 THEN 1 ELSE 2 * pow2(n - 1)

\* hex_to_binary: the spaces removed, a leading zero added to an odd number
\* of digits, each pair of digits written as format(decimal, '08b') and
\* followed by a space, the result stripped.
hex_to_binary(hex_text) ==
    LET no_spaces == SelectSeq(hex_text, LAMBDA ch : ch # " ")
        hex_clean == IF Len(no_spaces) % 2 # 0 THEN <<"0">> \o no_spaces
                     ELSE no_spaces
        decimal(k) == 16 * hex_value(hex_clean[2 * k - 1])
                          + hex_value(hex_clean[2 * k])
    IN  [i \in 1..(9 * (Len(hex_clean) \div 2) - 1) |->
            IF i % 9 = 0 THEN " "
            ELSE IF (decimal(((i - 1) \div 9) + 1) \div pow2(8 - (i % 9))) % 2 = 1
                 THEN "1" ELSE "0"]

\* The binary text of a sequence of bytes.
BinaryText(bytes) == hex_to_binary(HexText(bytes))

\* The texts extract_auth_sequences searches for.
BIN_25_40 == BinaryText(<<37, 64>>)
BIN_12_10_02_00_01 == BinaryText(<<18, 16, 2, 0, 1>>)
BIN_11_10_02_00_01 == BinaryText(<<17, 16, 2, 0, 1>>)
BIN_0A_40 == BinaryText(<<10, 64>>)
BIN_F3_00_00_3D_D0_E1 == BinaryText(<<243, 0, 0, 61, 208, 225>>)
BIN_F5_00_00_3F_D1_01 == BinaryText(<<245, 0, 0, 63, 209, 1>>)

\* extract_binary_sequence: the first expected_bytes words of the binary
\* text joined by spaces, or None (the empty text here) when the text has
\* fewer words.
extract_binary_sequence(binary_data, expected_bytes) ==
    IF (Len(binary_data) + 1) \div 9 >= expected_bytes
    THEN SubSeq(binary_data, 1, 9 * expected_bytes - 1)
    ELSE <<>>

\* extract_timestamp: the first ten digits in a row of the prefix, or
\* "unknown".
extract_timestamp(timestamp) ==
    IF timestamp >= 1000000000 THEN ToString(timestamp) ELSE "unknown"

\* The value of current_challenge before any challenge was found.
None == [line |-> 0]

\* One message found by extract_auth_sequences.
auth_message(c, n, type, data) ==
    [line |-> n,
     prefix |-> [device |-> c[n].device, timestamp |-> c[n].timestamp],
     type |-> type, data |-> data,
     timestamp |-> extract_timestamp(c[n].timestamp)]

\* The loop of extract_auth_sequences after the first n lines of the binary
\* output of the capture.
RECURSIVE auth_sequences_loop(_, _)
auth_sequences_loop(c, n) ==
    IF n = 0
    THEN [challenges |-> <<>>, responses |-> <<>>,
          challenge_response_pairs |-> <<>>, current_challenge |-> None]
    ELSE
    LET before == auth_sequences_loop(c, n - 1)
        binary_data == hex_to_binary(c[n].data)
        challenge(type, expected_bytes) ==
            LET challenge_data ==
                    extract_binary_sequence(binary_data, expected_bytes)
                found == auth_message(c, n, type, challenge_data)
            IN  IF challenge_data # <<>>
                THEN [before EXCEPT !.challenges = Append(@, found),
                                    !.current_challenge = found]
                ELSE before
        response(type) ==
            LET response_data == extract_binary_sequence(binary_data, 15)
                found == auth_message(c, n, type, response_data)
            IN  IF response_data # <<>>
                THEN [before EXCEPT
                        !.responses = Append(@, found),
                        !.challenge_response_pairs =
                            IF before.current_challenge # None
                            THEN Append(@, [challenge |->
                                                before.current_challenge,
                                            response |-> found])
                            ELSE @]
                ELSE before
    IN  IF contains(BIN_25_40, binary_data)
           /\ contains(BIN_12_10_02_00_01, binary_data)
        THEN challenge("25-byte challenge", 25)
        ELSE IF contains(BIN_25_40, binary_data)
                /\ contains(BIN_11_10_02_00_01, binary_data)
        THEN challenge("37-byte challenge", 37)
        ELSE IF contains(BIN_0A_40, binary_data)
                /\ contains(BIN_F3_00_00_3D_D0_E1, binary_data)
        THEN response("short response")
        ELSE IF contains(BIN_0A_40, binary_data)
                /\ contains(BIN_F5_00_00_3F_D1_01, binary_data)
        THEN response("long response")
        ELSE before

\* A 25-byte challenge and a short response as the captures show them.
Challenge25Line ==
    HexText(<<255, 255, 37, 64, 0, 0, 0, 0, 0, 18, 16, 2, 0, 1,
              5, 5, 5, 5, 5, 5, 5, 5, 5, 5, 5>>)
ShortResponseLine ==
    HexText(<<255, 255, 10, 64, 0, 0, 0, 0, 0, 243, 0, 0, 61, 208, 225>>)

AuthSequenceData == {Challenge25Line, ShortResponseLine}

InitAuthSequences ==
    /\ Constructed
    /\ call = CHOOSE c \in Inputs : TRUE
    /\ capture \in CapturesOf(AuthSequenceData, MaxLines)
    /\ run = [op |-> "input"]

\* process_rolling_file of convert_hex_to_binary.py, then
\* extract_auth_sequences on its output.
extract_auth_sequences ==
    /\ run.op = "input"
    /\ LET found == auth_sequences_loop(capture, Len(capture))
       IN  run' = [op |-> "extract_auth_sequences",
                   challenges |-> found.challenges,
                   responses |-> found.responses,
                   challenge_response_pairs |-> found.challenge_response_pairs]
    /\ UNCHANGED <<simvars, now, call, capture>>

SpecAuthSequences == InitAuthSequences /\ [][extract_auth_sequences]_vars

\* C21. A response is paired with the most recent challenge not yet paired,
\* so no challenge appears in more than one challenge-response pair.
ChallengePairedOnce ==
    run.op = "extract_auth_sequences" =>
        \A i, j \in DOMAIN run.challenge_response_pairs :
            i # j => run.challenge_response_pairs[i].challenge.line
                        # run.challenge_response_pairs[j].challenge.line

\* The number of challenges found in the first n lines of the capture that
\* are still waiting for a response, when every response takes one.
RECURSIVE pending(_, _)
pending(found, n) ==
    IF n = 0 THEN 0
    ELSE IF \E i \in DOMAIN found.challenges : found.challenges[i].line = n
         THEN pending(found, n - 1) + 1
    ELSE IF \E i \in DOMAIN found.responses : found.responses[i].line = n
         THEN Max({0, pending(found, n - 1) - 1})
    ELSE pending(found, n - 1)

\* C22. A response that no unmatched challenge precedes produces no
\* challenge-response pair (it is reported as an unmatched response instead),
\* and the processing goes on with the following lines.
UnmatchedResponseNotPaired ==
    run.op = "extract_auth_sequences" =>
        \A i \in DOMAIN run.responses :
            pending(run, run.responses[i].line - 1) = 0 =>
                \A k \in DOMAIN run.challenge_response_pairs :
                    run.challenge_response_pairs[k].response.line
                        # run.responses[i].line

(***************************************************************************)
(* src/duplicate_challenge_analyzer.py: the challenges that occur more     *)
(* than once in a capture, and the power cycles they occur in.             *)
(***************************************************************************)
\* extract_rolling_codes_with_context: the "ff ff 25 40" lines of 15 words
\* or more, whatever device sent them.
RECURSIVE rolling_code_context_list(_, _)
rolling_code_context_list(c, n) ==
    IF n = 0 THEN <<>>
    ELSE LET hex_parts == split(c[n].data)
         IN  IF /\ startswith(c[n].data, HexText(<<255, 255, 37, 64>>))
                /\ Len(hex_parts) >= 15
             THEN Append(rolling_code_context_list(c, n - 1),
                         [line_number |-> n,
                          timestamp |-> c[n].timestamp,
                          device |-> c[n].device,
                          challenge |-> join(hex_parts, 8, 16),
                          response |-> join(hex_parts, 16, Len(hex_parts)),
                          full_data |-> c[n].data,
                          hex_parts |-> hex_parts])
             ELSE rolling_code_context_list(c, n - 1)

extract_rolling_codes_with_context(c) == rolling_code_context_list(c, Len(c))

\* challenge_groups of find_duplicate_challenges after the first n rolling
\* codes: the dictionary as the sequence of its items, in the order the keys
\* were inserted.
RECURSIVE challenge_groups(_, _)
challenge_groups(rolling_codes, n) ==
    IF n = 0 THEN <<>>
    ELSE LET before == challenge_groups(rolling_codes, n - 1)
             code == rolling_codes[n]
         IN  IF \E k \in DOMAIN before : before[k].challenge = code.challenge
             THEN [k \in DOMAIN before |->
                      IF before[k].challenge = code.challenge
                      THEN [before[k] EXCEPT !.codes = Append(@, code)]
                      ELSE before[k]]
             ELSE Append(before, [challenge |-> code.challenge,
                                  codes |-> <<code>>])

\* find_duplicate_challenges as it would be if every group were reported.
find_duplicate_challenges_of_any_length(rolling_codes) ==
    challenge_groups(rolling_codes, Len(rolling_codes))

\* find_duplicate_challenges: the groups of more than one code.
find_duplicate_challenges(rolling_codes) ==
    SelectSeq(challenge_groups(rolling_codes, Len(rolling_codes)),
              LAMBDA group : Len(group.codes) > 1)

\* analyze_power_cycle_context: the power cycles (the loop is the one of
\* analyze_rolling_code_algorithm) and, for each cycle holding a challenge of
\* the machine that is a key of duplicates, its number and those challenges.
power_cycle_context(rolling_codes, duplicates) ==
    LET power_cycles == code_cycles(rolling_codes)
        is_duplicate(code) ==
            /\ code.device = "machine"
            /\ \E k \in DOMAIN duplicates :
                   duplicates[k].challenge = code.challenge
        cycle_duplicates(cycle) ==
            LET found == SelectSeq(cycle, is_duplicate)
            IN  [i \in DOMAIN found |-> found[i].challenge]
        numbered == [k \in DOMAIN power_cycles |->
                        [cycle_num |-> k,
                         cycle_duplicates |->
                             cycle_duplicates(power_cycles[k])]]
    IN  [power_cycles |-> power_cycles,
         duplicate_cycles |->
             SelectSeq(numbered, LAMBDA e : e.cycle_duplicates # <<>>)]

\* Lines of a capture whose lines vary in data, device and gap.
MaxAuthLines == 3

\* The captures of at most n lines, with the given gaps between lines.
RECURSIVE CapturesWith(_, _, _)
CapturesWith(datas, gaps, n) ==
    IF n = 0 THEN {<<>>}
    ELSE LET shorter == CapturesWith(datas, gaps, n - 1)
         IN  shorter \cup
             {Append(c, [timestamp |-> last_timestamp(c) + g, device |-> d,
                         data |-> x]) :
                 c \in {e \in shorter : Len(e) = n - 1},
                 g \in gaps, d \in CaptureDevices, x \in datas}

\* Authentication lines: two of 16 words with different rolling codes, and
\* one of 15 words.
OtherAuthLine ==
    HexText(<<255, 255, 37, 64, 0, 0, 0, 0, 0, 17, 16, 2, 0, 1, 5, 6>>)
ShortAuthLine ==
    HexText(<<255, 255, 37, 64, 0, 0, 0, 0, 0, 17, 16, 2, 0, 1, 5>>)

DuplicateData == {AuthLine, OtherAuthLine, ShortAuthLine}

InitDuplicates ==
    /\ Constructed
    /\ call = CHOOSE c \in Inputs : TRUE
    /\ capture \in CapturesWith(DuplicateData, Gaps, MaxAuthLines)
    /\ run = [op |-> "input"]

\* duplicate_challenge_analyzer.main up to find_duplicate_challenges.
CallFindDuplicateChallenges ==
    /\ run.op = "input"
    /\ LET rolling_codes == extract_rolling_codes_with_context(capture)
       IN  run' = [op |-> "find_duplicate_challenges",
                   rolling_codes |-> rolling_codes,
                   duplicates |-> find_duplicate_challenges(rolling_codes)]
    /\ UNCHANGED <<simvars, now, call, capture>>

\* main from there up to analyze_power_cycle_context.
analyze_power_cycle_context ==
    /\ run.op = "find_duplicate_challenges"
    /\ LET context == power_cycle_context(run.rolling_codes, run.duplicates)
       IN  run' = [op |-> "analyze_power_cycle_context",
                   rolling_codes |-> run.rolling_codes,
                   duplicates |-> run.duplicates,
                   sessions |-> context.power_cycles,
                   duplicate_cycles |-> context.duplicate_cycles]
    /\ UNCHANGED <<simvars, now, call, capture>>

\* create_detailed_analysis_report: the exception that leaves it, if any. The
\* duplicate rate divides by the number of different challenges and the
\* uniqueness rate by the number of responses.
detailed_analysis_report(rolling_codes, duplicates) ==
    LET challenges == {rolling_codes[i].challenge : i \in DOMAIN rolling_codes}
        responses == [i \in DOMAIN rolling_codes |-> rolling_codes[i].response]
    IN  IF Cardinality(challenges) = 0 THEN "ZeroDivisionError"
        ELSE IF Len(responses) = 0 THEN "ZeroDivisionError"
        ELSE ""

\* main from there to its end: the report written and exit status 0, or
\* "Error: ..." and sys.exit(1) when the report raises.
create_detailed_analysis_report ==
    /\ run.op = "analyze_power_cycle_context"
    /\ LET raised == detailed_analysis_report(run.rolling_codes,
                                              run.duplicates)
       IN  run' = [op |-> "create_detailed_analysis_report",
                   rolling_codes |-> run.rolling_codes,
                   duplicates |-> run.duplicates,
                   duplicate_cycles |-> run.duplicate_cycles,
                   raised |-> raised,
                   exit_code |-> IF raised = "" THEN 0 ELSE 1]
    /\ UNCHANGED <<simvars, now, call, capture>>

DuplicatesNext ==
    \/ CallFindDuplicateChallenges
    \/ analyze_power_cycle_context
    \/ create_detailed_analysis_report
    \/ analyze_rolling_code_algorithm

SpecDuplicates == InitDuplicates /\ [][DuplicatesNext]_vars

\* The authentication messages of the capture, as the grouping receives them.
Grouped ==
    IF run.op = "analyze_power_cycle_context" THEN run.rolling_codes
    ELSE extract_rolling_codes(capture)

\* C23. Every type-25 authentication message of the capture is kept in
\* exactly one group of the power-cycle grouping, also the message that has
\* no other authentication message within 30 seconds of it.
EveryMessageInOneGroup ==
    run.op \in {"analyze_power_cycle_context",
                "analyze_rolling_code_algorithm"} =>
        \A i \in DOMAIN Grouped :
            Cardinality({<<k, j>> \in
                             (DOMAIN run.sessions) \X (1..MaxAuthLines) :
                             /\ j \in DOMAIN run.sessions[k]
                             /\ run.sessions[k][j] = Grouped[i]}) = 1

\* The rolling codes given to find_duplicate_challenges that carry the
\* challenge value, in capture order.
Occurrences(value) ==
    SelectSeq(run.rolling_codes, LAMBDA code : code.challenge = value)

\* C24. For every challenge value that occurs more than once among the
\* rolling codes, find_duplicate_challenges reports exactly one record, and
\* the record lists all the occurrences of the value in capture order; a
\* value that occurs once is not reported, and nothing else is.
DuplicatesReportedOnce ==
    run.op = "find_duplicate_challenges" =>
        /\ \A i \in DOMAIN run.rolling_codes :
              LET value == run.rolling_codes[i].challenge
                  records == {k \in DOMAIN run.duplicates :
                                 run.duplicates[k].challenge = value}
              IN  IF Len(Occurrences(value)) > 1
                  THEN /\ Cardinality(records) = 1
                       /\ \A k \in records :
                              run.duplicates[k].codes = Occurrences(value)
                  ELSE records = {}
        /\ \A k \in DOMAIN run.duplicates :
              Occurrences(run.duplicates[k].challenge) # <<>>

\* A value reported once with its two occurrences, the first and the third
\* line of the capture, while the value of the second line, which occurs
\* once, is not reported.
DuplicatesWitness ==
    /\ run.op = "find_duplicate_challenges"
    /\ Len(run.rolling_codes) = 3
    /\ Len(run.duplicates) = 1
    /\ Len(run.duplicates[1].codes) = 2
    /\ run.duplicates[1].codes[1].line_number = 1
    /\ run.duplicates[1].codes[2].line_number = 3
    /\ run.rolling_codes[2].challenge # run.duplicates[1].challenge

\* C25. Only AUTH_CHALLENGE frames are recorded as occurrences of a
\* challenge: no frame classified otherwise (a frame of the modem is an
\* AUTH_RESPONSE) is listed in a duplicate record.
OnlyChallengesCounted ==
    run.op = "find_duplicate_challenges" =>
        \A k \in DOMAIN run.duplicates :
            \A j \in DOMAIN run.duplicates[k].codes :
                LET code == run.duplicates[k].codes[j]
                IN  determine_state(code.full_data, code.device)
                        = "AUTH_CHALLENGE"

\* C26. The challenge extracted from every accepted type-25 line is 8 bytes,
\* 16 hexadecimal digits.
ChallengeIsEightBytes ==
    run.op = "find_duplicate_challenges" =>
        \A i \in DOMAIN run.rolling_codes :
            Len(run.rolling_codes[i].challenge) = 16

(***************************************************************************)
(* src/crypto_analysis.py, analyze_timing_patterns: the time from each     *)
(* challenge to its response.                                              *)
(***************************************************************************)
\* The "Challenge i -> Response" lines: for each code of the machine, the
\* first code of the modem whose timestamp is greater, if there is one.
challenge_response_timing(rolling_codes) ==
    LET machine_codes ==
            SelectSeq(rolling_codes, LAMBDA code : code.device = "machine")
        modem_codes ==
            SelectSeq(rolling_codes, LAMBDA code : code.device = "modem")
        later(machine_code) ==
            {j \in DOMAIN modem_codes :
                modem_codes[j].timestamp > machine_code.timestamp}
        line(i) ==
            LET modem_code == modem_codes[Min(later(machine_codes[i]))]
            IN  [challenge |-> i,
                 machine_code |-> machine_codes[i],
                 modem_code |-> modem_code,
                 response_time |->
                     modem_code.timestamp - machine_codes[i].timestamp]
        answered == {i \in DOMAIN machine_codes :
                        later(machine_codes[i]) # {}}
    IN  [i \in answered |-> line(i)]

\* Seconds from one line to the next: the same second, or three later.
TimingGaps == {0, 3}

InitTiming ==
    /\ Constructed
    /\ call = CHOOSE c \in Inputs : TRUE
    /\ capture \in CapturesWith({AuthLine}, TimingGaps, MaxLines)
    /\ run = [op |-> "input"]

\* crypto_analysis.main up to analyze_timing_patterns.
analyze_timing_patterns ==
    /\ run.op = "input"
    /\ LET rolling_codes == extract_rolling_codes(capture)
       IN  run' = [op |-> "analyze_timing_patterns",
                   rolling_codes |-> rolling_codes,
                   timing |-> challenge_response_timing(rolling_codes)]
    /\ UNCHANGED <<simvars, now, call, capture>>

SpecTiming == InitTiming /\ [][analyze_timing_patterns]_vars

\* C27. A response with the timestamp of its challenge is a pair of latency
\* 0: a challenge followed in the capture by a response of the same second
\* is reported with that response and a time of 0 s.
ZeroLatencyPaired ==
    run.op = "analyze_timing_patterns" =>
        \A m, r \in DOMAIN run.rolling_codes :
            (/\ m + 1 = r
             /\ run.rolling_codes[m].device = "machine"
             /\ run.rolling_codes[r].device = "modem"
             /\ run.rolling_codes[r].timestamp
                    = run.rolling_codes[m].timestamp)
            => \E i \in DOMAIN run.timing :
                   /\ run.timing[i].machine_code = run.rolling_codes[m]
                   /\ run.timing[i].modem_code = run.rolling_codes[r]
                   /\ run.timing[i].response_time = 0

(***************************************************************************)
(* src/wifi_module_simulator.py, log_communication called by two threads:  *)
(* the clock is read and the text formatted before self._lock is taken,    *)
(* the entry is appended while it is held.                                 *)
(***************************************************************************)
\* Entries the two threads log, and milliseconds the clock advances.
MaxEntries == 3
MaxClock == 2

ProducerSources == {"modem", "machine"}
ProducerFrames == {<<255, 255, 0>>}

\* A thread calls log_communication(source, frame, description); the call
\* is noted in run.calls and the thread remembers which call it is making.
EnterLogCommunication(t) ==
    /\ threads[t].pc = "idle"
    /\ Len(run.calls) < MaxEntries
    /\ \E source \in ProducerSources, frame \in ProducerFrames :
         /\ threads' = [threads EXCEPT ![t] =
                           [pc |-> "timestamp", call |-> Len(run.calls) + 1,
                            source |-> source, frame |-> frame,
                            description |-> "Logged frame"]]
         /\ run' = [run EXCEPT !.calls =
                        Append(@, [source |-> source, frame |-> frame,
                                   description |-> "Logged frame"])]
    /\ UNCHANGED <<frame_id, device_address, module_address,
                   communication_log, is_connected, device_status, lock, now,
                   call, capture>>

\* timestamp = int(time.time() * 1000), then the text and the two prints.
ReadClock(t) ==
    /\ threads[t].pc = "timestamp"
    /\ threads' = [threads EXCEPT ![t] =
                      [pc |-> "with_lock", call |-> threads[t].call,
                       source |-> threads[t].source,
                       frame |-> threads[t].frame,
                       description |-> threads[t].description,
                       timestamp |-> now]]
    /\ UNCHANGED <<frame_id, device_address, module_address,
                   communication_log, is_connected, device_status, lock, now,
                   call, capture, run>>

\* with self._lock: entered when no thread holds the lock.
AcquireLock(t) ==
    /\ threads[t].pc = "with_lock"
    /\ lock = "free"
    /\ lock' = t
    /\ threads' = [threads EXCEPT ![t].pc = "append"]
    /\ UNCHANGED <<frame_id, device_address, module_address,
                   communication_log, is_connected, device_status, now,
                   call, capture, run>>

\* self.communication_log.append(...), and the lock released on leaving the
\* with block.
AppendEntry(t) ==
    /\ threads[t].pc = "append"
    /\ lock = t
    /\ communication_log' =
           log_communication(communication_log, threads[t].timestamp,
                             threads[t].source, threads[t].frame,
                             threads[t].description)
    /\ lock' = "free"
    /\ threads' = [threads EXCEPT ![t] = Idle]
    /\ UNCHANGED <<frame_id, device_address, module_address, is_connected,
                   device_status, now, call, capture, run>>

\* A millisecond passes.
Tick ==
    /\ now < MaxClock
    /\ now' = now + 1
    /\ UNCHANGED <<simvars, call, capture, run>>

InitProducers ==
    /\ Constructed
    /\ call = CHOOSE c \in Inputs : TRUE
    /\ capture = NoCapture
    /\ run = [op |-> "log_communication", calls |-> <<>>]

ProducersNext ==
    \/ \E t \in Producers :
         \/ EnterLogCommunication(t)
         \/ ReadClock(t)
         \/ AcquireLock(t)
         \/ AppendEntry(t)
    \/ Tick

SpecProducers == InitProducers /\ [][ProducersNext]_vars

\* C28. With two threads logging at once, the entries of the log are in the
\* order of their timestamps in every interleaving: no entry follows one
\* with a strictly greater timestamp.
LogInTimestampOrder ==
    \A i, j \in DOMAIN communication_log :
        i < j => communication_log[i].timestamp
                    <= communication_log[j].timestamp

(***************************************************************************)
(* src/state_machine_analysis.py, extract_state_transitions: the           *)
(* transitions between consecutive states.                                 *)
(***************************************************************************)
\* The transition list as it would be if each transition started from the
\* state it arrives at.
build_transitions_from_current(states) ==
    [i \in 1..(Len(states) - 1) |->
        [from |-> states[i + 1].state,
         to |-> states[i + 1].state,
         device |-> states[i + 1].device,
         timestamp |-> states[i + 1].timestamp,
         time_diff |-> states[i + 1].timestamp - states[i].timestamp,
         data |-> states[i + 1].data]]

\* The transition matrix loop: for i in range(1, len(states)), from
\* states[i-1] to states[i].
build_transitions(states) ==
    [i \in 1..(Len(states) - 1) |->
        [from |-> states[i].state,
         to |-> states[i + 1].state,
         device |-> states[i + 1].device,
         timestamp |-> states[i + 1].timestamp,
         time_diff |-> states[i + 1].timestamp - states[i].timestamp,
         data |-> states[i + 1].data]]

TransitionData == {MarkerLine, SessionStartLine, AuthLine}

InitTransitions ==
    /\ Constructed
    /\ call = CHOOSE c \in Inputs : TRUE
    /\ capture \in CapturesWith(TransitionData, TimingGaps, MaxAuthLines)
    /\ run = [op |-> "input"]

\* extract_state_transitions(filename): states and transitions.
CallExtractStateTransitions ==
    /\ run.op = "input"
    /\ LET states == extract_state_transitions(capture)
       IN  run' = [op |-> "extract_state_transitions",
                   states |-> states,
                   transitions |-> build_transitions(states)]
    /\ UNCHANGED <<simvars, now, call, capture>>

SpecTransitions == InitTransitions /\ [][CallExtractStateTransitions]_vars

\* C29. extract_state_transitions returns the states in the order of the
\* lines of the capture, frames of one timestamp included, with the state
\* the classification gives each line; transition i goes from state i - 1 to
\* state i, and there are max(0, n - 1) transitions for n accepted lines.
TransitionsFollowLineOrder ==
    run.op = "extract_state_transitions" =>
        /\ Len(run.states) = Len(capture)
        /\ \A i \in DOMAIN run.states :
              /\ run.states[i].line = i
              /\ run.states[i].timestamp = capture[i].timestamp
              /\ run.states[i].device = capture[i].device
              /\ run.states[i].data = capture[i].data
              /\ run.states[i].state
                     = determine_state(capture[i].data, capture[i].device)
        /\ Len(run.transitions) = Max({0, Len(run.states) - 1})
        /\ \A i \in DOMAIN run.transitions :
              /\ run.transitions[i].from = run.states[i].state
              /\ run.transitions[i].to = run.states[i + 1].state
              /\ run.transitions[i].timestamp = run.states[i + 1].timestamp
              /\ run.transitions[i].time_diff
                     = run.states[i + 1].timestamp - run.states[i].timestamp

\* Three lines, the first two of one timestamp with the session start
\* before the marker "00" (the text order is the other way round), and two
\* transitions between different states.
TransitionsWitness ==
    /\ run.op = "extract_state_transitions"
    /\ Len(run.states) = 3
    /\ run.states[1].timestamp = run.states[2].timestamp
    /\ run.states[1].data = SessionStartLine
    /\ run.states[2].data = MarkerLine
    /\ Len(run.transitions) = 2
    /\ run.transitions[1].from # run.transitions[1].to
    /\ run.transitions[2].from # run.transitions[2].to

(***************************************************************************)
(* src/analyze_rolling.py, parse_rolling_data and main: what a line whose   *)
(* data is cut short does to the run.                                      *)
(***************************************************************************)
\* message_types[msg_type].append(message): the dictionary as the sequence
\* of its items, in the order the keys were inserted.
append_to(message_types, msg_type, message) ==
    IF \E k \in DOMAIN message_types : message_types[k].msg_type = msg_type
    THEN [k \in DOMAIN message_types |->
             IF message_types[k].msg_type = msg_type
             THEN [message_types[k] EXCEPT !.messages = Append(@, message)]
             ELSE message_types[k]]
    ELSE Append(message_types,
                [msg_type |-> msg_type, messages |-> <<message>>])

\* The loop of parse_rolling_data after the first n lines: the three
\* collections, or the exception that left the function.
RECURSIVE parse_rolling_loop(_, _)
parse_rolling_loop(c, n) ==
    IF n = 0
    THEN [raised |-> "", power_cycles |-> <<>>, message_types |-> <<>>,
          rolling_codes |-> <<>>]
    ELSE
    LET before == parse_rolling_loop(c, n - 1)
        data == c[n].data
        message == <<c[n].timestamp, c[n].device, data>>
        marked == IF data = HexText(<<0>>)
                  THEN [before EXCEPT !.power_cycles =
                           Append(@, <<c[n].timestamp, c[n].device>>)]
                  ELSE before
        hex_parts == split(data)
        msg_type == hex_parts[3] \o <<" ">> \o hex_parts[4]
    IN  IF before.raised # "" THEN before
        ELSE IF ~startswith(data, HexText(<<255, 255>>)) THEN marked
        ELSE IF ~(Len(hex_parts) >= 3) THEN marked
        ELSE IF Len(hex_parts) < 4
        THEN [marked EXCEPT !.raised = "IndexError"]
        ELSE [marked EXCEPT
                !.message_types = append_to(@, msg_type, message),
                !.rolling_codes =
                    IF msg_type \in {HexText(<<37, 64>>), HexText(<<67, 64>>)}
                    THEN Append(@, message) ELSE @]

parse_rolling_data(c) == parse_rolling_loop(c, Len(c))

\* A line of the capture format whose data stops after the length byte.
TruncatedLine == HexText(<<255, 255, 10>>)

RollingData == {MarkerLine, TruncatedLine, SessionStartLine, AuthLine}

InitRolling ==
    /\ Constructed
    /\ call = CHOOSE c \in Inputs : TRUE
    /\ capture \in CapturesWith(RollingData, Gaps, MaxAuthLines)
    /\ run = [op |-> "input"]

\* analyze_rolling.main: the three analyses of what parse_rolling_data
\* returns, or "Error: ..." and sys.exit(1) when it raises.
analyze_rolling_main ==
    /\ run.op = "input"
    /\ LET parsed == parse_rolling_data(capture)
       IN  run' = IF parsed.raised # ""
                  THEN [op |-> "main", exit_code |-> 1,
                        raised |-> parsed.raised]
                  ELSE [op |-> "main", exit_code |-> 0,
                        power_cycles |-> parsed.power_cycles,
                        message_types |-> parsed.message_types,
                        rolling_codes |-> parsed.rolling_codes]
    /\ UNCHANGED <<simvars, now, call, capture>>

SpecRolling == InitRolling /\ [][analyze_rolling_main]_vars

\* C30. A malformed or truncated line is skipped and the parsing goes on
\* with the next line: no line of the capture makes parse_rolling_data fail
\* or ends the run.
TruncatedLineSkipped ==
    run.op = "main" =>
        /\ run.exit_code = 0
        /\ \A i \in DOMAIN capture :
              capture[i].data = SessionStartLine =>
                  \E k \in DOMAIN run.message_types :
                      \E j \in DOMAIN run.message_types[k].messages :
                          run.message_types[k].messages[j]
                              = <<capture[i].timestamp, capture[i].device,
                                  capture[i].data>>

\* C31. A capture without a valid authentication frame is a valid empty
\* result: the duplicate-challenge pipeline ends normally, with no duplicate
\* and no cycle, and not in the error exit.
EmptyCaptureIsValidResult ==
    (run.op = "create_detailed_analysis_report" /\ run.rolling_codes = <<>>)
        => /\ run.exit_code = 0
           /\ run.duplicates = <<>>
           /\ run.duplicate_cycles = <<>>

(***************************************************************************)
(* src/wifi_module_simulator.py, build_frame on payloads as long as a      *)
(* frame of one length byte can hold, and longer.                          *)
(***************************************************************************)
\* The longest payload drawn.
MaxLongPayload == 248

\* Payload lengths: the shortest ones, and those around the length whose
\* frame length no longer fits in a byte.
LongPayloadLengths == {0, 1} \cup ((MaxLongPayload - 3)..MaxLongPayload)

\* The payloads of one repeated byte.
LongPayloads ==
    {[i \in 1..n |-> b] : n \in LongPayloadLengths, b \in PayloadBytes}

InitLongFrames ==
    /\ Constructed
    /\ call \in [op : {"input"}, frame_type : FrameTypes, data : LongPayloads,
                 use_crc : {FALSE}, frame : {<<>>}, ret : {<<>>}, crc : {0},
                 calls : {0}]
    /\ capture = NoCapture
    /\ run = NoRun

\* build_frame(call.frame_type, call.data) on such a payload, use_crc left
\* at its default.
CallBuildFrameOnLongPayload ==
    /\ call.op = "input"
    /\ call.data \in LongPayloads
    /\ call' = [call EXCEPT
                  !.op = "build_frame",
                  !.calls = @ + 1,
                  !.frame = frame_before_stuffing(call.frame_type, call.data,
                                                  call.use_crc),
                  !.ret = build_frame(call.frame_type, call.data, call.use_crc)]
    /\ UNCHANGED <<simvars, now, capture, run>>

SpecLongFrames == InitLongFrames /\ [][CallBuildFrameOnLongPayload]_vars

\* C32. Every element of the frame build_frame returns is a byte, 0..255,
\* for every frame type and every payload of bytes; the length field is one
\* byte whatever the payload length.
FrameOfBytes ==
    call.op = "build_frame" =>
        \A i \in DOMAIN call.ret : call.ret[i] \in Byte

(***************************************************************************)
(* src/wifi_module_simulator.py: a caller that makes calls of the five      *)
(* simulate_ methods on a fresh simulator, in any order, and keeps the     *)
(* list of the calls it made.                                              *)
(***************************************************************************)
\* Calls the caller makes.
MaxOperations == 2

\* The control commands it sends: three the simulator knows and one it
\* does not.
CallerControls ==
    {<<"power", 1>>, <<"temperature", 22>>, <<"mode", 2>>, <<"fan", 0>>}

InitOperations ==
    /\ Constructed
    /\ call = CHOOSE c \in Inputs : TRUE
    /\ capture = NoCapture
    /\ run = [op |-> "operations", called |-> <<>>]

\* The caller notes the call it makes.
Called(operation) ==
    /\ run.op = "operations"
    /\ Len(run.called) < MaxOperations
    /\ run' = [run EXCEPT !.called = Append(@, operation)]
    /\ UNCHANGED <<call, capture, lock, threads>>

CallPowerUp ==
    /\ power_up
    /\ Called("simulate_power_up")

CallControlCommand ==
    \E control \in CallerControls :
      /\ control_command(control[1], control[2])
      /\ Called("simulate_control_command")

CallStatusReporting ==
    /\ status_reporting
    /\ Called("simulate_status_reporting")

CallAlarm ==
    \E alarm_type \in {"temperature_high"} :
      /\ alarm(alarm_type)
      /\ Called("simulate_alarm")

CallNetworkStatusQuery ==
    /\ network_status_query
    /\ Called("simulate_network_status_query")

OperationsNext ==
    \/ CallPowerUp
    \/ CallControlCommand
    \/ CallStatusReporting
    \/ CallAlarm
    \/ CallNetworkStatusQuery

SpecOperations == InitOperations /\ [][OperationsNext]_vars

\* C33. While is_connected is False, a call of simulate_control_command,
\* simulate_status_reporting, simulate_alarm or
\* simulate_network_status_query leaves communication_log, device_status
\* and is_connected unchanged.
DisconnectedCallChangesNothing ==
    [][(/\ ~is_connected
        /\ Len(run'.called) = Len(run.called) + 1
        /\ run'.called[Len(run'.called)] # "simulate_power_up")
       => UNCHANGED <<communication_log, device_status, is_connected>>]_vars

\* The four methods have been called on a simulator that never ran the
\* power-up, the control command among them.
DisconnectedCallWitness ==
    /\ run.op = "operations"
    /\ ~is_connected
    /\ Len(run.called) = MaxOperations
    /\ \E i \in DOMAIN run.called : run.called[i] = "simulate_control_command"
    /\ \E i \in DOMAIN run.called : run.called[i] = "simulate_alarm"
    /\ \A i \in DOMAIN run.called : run.called[i] # "simulate_power_up"

(***************************************************************************)
(* src/wifi_module_simulator.py: the simulate_ methods called by two       *)
(* threads on one simulator. A thread may be descheduled between any two   *)
(* statements of a method, in particular in its time.sleep calls; the      *)
(* clock is left at one reading, since the order of the appends does not   *)
(* depend on it.                                                           *)
(***************************************************************************)
Operations ==
    {"simulate_power_up", "simulate_control_command",
     "simulate_status_reporting", "simulate_alarm",
     "simulate_network_status_query"}

\* One call of log_communication(source, frame, description).
log_call(source, frame, description) ==
    [do |-> "log_communication", source |-> source, frame |-> frame,
     description |-> description]

\* simulate_power_up as it would be if it set is_connected before it sends
\* the three frames.
power_up_statements_connecting_first ==
    <<[do |-> "connect"],
      log_call("modem", build_frame(4, power_up_data, FALSE),
               "Power-up initialization"),
      log_call("machine", build_frame(97, <<0>>, FALSE),
               "Power-up acknowledgment"),
      log_call("modem", build_frame(98, device_info_data, FALSE),
               "Device information")>>

\* The statements of simulate_power_up that change the simulator, in
\* program order.
power_up_statements ==
    <<log_call("modem", build_frame(4, power_up_data, FALSE),
               "Power-up initialization"),
      log_call("machine", build_frame(97, <<0>>, FALSE),
               "Power-up acknowledgment"),
      log_call("modem", build_frame(98, device_info_data, FALSE),
               "Device information"),
      [do |-> "connect"]>>

\* The statements of a simulate_ method that change the simulator, in
\* program order, after its test of is_connected.
statements(operation, command, value) ==
    IF operation = "simulate_power_up" THEN power_up_statements
    ELSE IF operation = "simulate_control_command"
    THEN <<log_call("modem", build_frame(243, <<1, 77, 1, value>>, FALSE),
                    "Control: " \o command \o "=" \o ToString(value)),
           log_call("machine", build_frame(77, <<97, 128>>, FALSE),
                    "Control acknowledgment"),
           [do |-> "update_device_status", command |-> command,
            value |-> value]>>
    ELSE IF operation = "simulate_status_reporting"
    THEN <<log_call("machine", build_frame(109, status_data, FALSE),
                    "Status report"),
           log_call("modem", build_frame(77, <<97, 128>>, FALSE),
                    "Status acknowledgment")>>
    ELSE IF operation = "simulate_alarm"
    THEN <<log_call("machine", build_frame(18, alarm_data, FALSE),
                    "Alarm: temperature_high"),
           log_call("modem", build_frame(77, <<97, 128>>, FALSE),
                    "Alarm acknowledgment")>>
    ELSE <<log_call("modem", build_frame(247, query_data, FALSE),
                    "Network status query"),
           log_call("machine", build_frame(245, network_status_data, FALSE),
                    "Network status response")>>

\* The statement a thread inside a method executes next.
next_statement(t) ==
    statements(threads[t].operation, threads[t].command,
               threads[t].value)[threads[t].done + 1]

\* The thread after that statement: at the next one, or out of the method.
advanced(t) ==
    IF threads[t].done + 1
         = Len(statements(threads[t].operation, threads[t].command,
                          threads[t].value))
    THEN [threads EXCEPT ![t] = Idle]
    ELSE [threads EXCEPT ![t].done = @ + 1]

\* Calls the two threads make in all.
MaxStarted == 3

InitConcurrent ==
    /\ Constructed
    /\ call = CHOOSE c \in Inputs : TRUE
    /\ capture = NoCapture
    /\ run = [op |-> "threads", started |-> 0]

\* A thread calls a method: simulate_power_up goes on to its first
\* statement; another method tests is_connected and returns at once when it
\* is False.
StartOperation(t) ==
    /\ threads[t].pc = "idle"
    /\ run.started < MaxStarted
    /\ run' = [run EXCEPT !.started = @ + 1]
    /\ \E operation \in Operations :
         threads' =
           IF operation # "simulate_power_up" /\ ~is_connected
           THEN threads
           ELSE [threads EXCEPT ![t] =
                   [pc |-> "operation", operation |-> operation,
                    command |-> "power", value |-> 1, done |-> 0]]
    /\ UNCHANGED <<frame_id, device_address, module_address,
                   communication_log, is_connected, device_status, lock, now,
                   call, capture>>

\* self.log_communication(...): the entry appended under the lock.
LogStatement(t) ==
    /\ threads[t].pc = "operation"
    /\ next_statement(t).do = "log_communication"
    /\ lock = "free"
    /\ communication_log' =
           log_communication(communication_log, now, next_statement(t).source,
                             next_statement(t).frame,
                             next_statement(t).description)
    /\ threads' = advanced(t)
    /\ UNCHANGED <<frame_id, device_address, module_address, is_connected,
                   device_status, lock, now, call, capture, run>>

\* self.is_connected = True
ConnectStatement(t) ==
    /\ threads[t].pc = "operation"
    /\ next_statement(t).do = "connect"
    /\ is_connected' = TRUE
    /\ threads' = advanced(t)
    /\ UNCHANGED <<frame_id, device_address, module_address,
                   communication_log, device_status, lock, now, call, capture,
                   run>>

\* self.update_device_status(command, value), under the lock.
UpdateStatement(t) ==
    /\ threads[t].pc = "operation"
    /\ next_statement(t).do = "update_device_status"
    /\ lock = "free"
    /\ device_status' = update_device_status(device_status,
                                             next_statement(t).command,
                                             next_statement(t).value)
    /\ threads' = advanced(t)
    /\ UNCHANGED <<frame_id, device_address, module_address,
                   communication_log, is_connected, lock, now, call, capture,
                   run>>

ConcurrentNext ==
    \E t \in Producers :
      \/ StartOperation(t)
      \/ LogStatement(t)
      \/ ConnectStatement(t)
      \/ UpdateStatement(t)

SpecConcurrent == InitConcurrent /\ [][ConcurrentNext]_vars

\* The log holds, before position n, the three entries of one power-up in
\* their order.
PowerUpBefore(n) ==
    \E i, j, k \in 1..(n - 1) :
        /\ i < j /\ j < k
        /\ communication_log[i].source = "modem"
        /\ communication_log[i].description = "Power-up initialization"
        /\ communication_log[j].source = "machine"
        /\ communication_log[j].description = "Power-up acknowledgment"
        /\ communication_log[k].source = "modem"
        /\ communication_log[k].description = "Device information"

PowerUpDescriptions ==
    {"Power-up initialization", "Power-up acknowledgment",
     "Device information"}

\* C34. Whatever the order of the calls, made by one thread or by two at
\* once: a control, status, alarm or network entry is in the log only after
\* the three entries (modem, machine, modem) of a complete power-up;
\* is_connected is True only after those three entries, and once True it
\* stays True.
PowerUpComesFirst ==
    /\ [](\A n \in DOMAIN communication_log :
            communication_log[n].description \notin PowerUpDescriptions
                => PowerUpBefore(n))
    /\ [](is_connected => PowerUpBefore(Len(communication_log) + 1))
    /\ [][is_connected => is_connected']_vars

\* Two power-ups ran at once, their entries interleaved, and a status report
\* was logged after the first of them completed.
PowerUpWitness ==
    /\ is_connected
    /\ Len(communication_log) >= 5
    /\ communication_log[1].description = "Power-up initialization"
    /\ communication_log[2].description = "Power-up initialization"
    /\ \E n \in DOMAIN communication_log :
           communication_log[n].description = "Status report"

(***************************************************************************)
(* src/wifi_module_simulator.py, run_interactive_simulation on a fresh     *)
(* simulator: one pass of the loop for each line the user enters.          *)
(***************************************************************************)
\* Passes of the loop.
MaxCommands == 3

\* What the user types for a value: numbers, and a text that is no number.
ValueLines == {"1", "22", "abc"}

\* What the user types for the alarm type: nothing, or a name.
AlarmLines == {"", "smoke"}

\* A command the loop does not know.
UnknownLines == {"help"}

\* int(line): the number, or ValueError (here -1) for a text that is none.
int(line) ==
    IF \E n \in 0..99 : ToString(n) = line
    THEN CHOOSE n \in 0..99 : ToString(n) = line
    ELSE -1

\* The first argument the loop passes to simulate_control_command for the
\* commands power, temp and mode.
control_of(command) == IF command = "temp" THEN "temperature" ELSE command

InitInteractive ==
    /\ Constructed
    /\ call = CHOOSE c \in Inputs : TRUE
    /\ capture = NoCapture
    /\ run = [op |-> "run_interactive_simulation", pc |-> "input",
              entered |-> <<>>]

\* The loop has read the lines of one pass and is back at its input.
Entered(lines) ==
    /\ run.op = "run_interactive_simulation"
    /\ run.pc = "input"
    /\ Len(run.entered) < MaxCommands
    /\ run' = [run EXCEPT !.entered = Append(@, lines)]
    /\ UNCHANGED <<call, capture, lock, threads>>

\* power, temp, mode: the value is read and converted; a ValueError is
\* caught by the loop, which prints it and goes on.
InteractiveControl ==
    \E command \in {"power", "temp", "mode"}, line \in ValueLines :
      /\ IF int(line) = -1
         THEN UNCHANGED inside
         ELSE control_command(control_of(command), int(line))
      /\ Entered(<<command, line>>)

InteractiveStatus ==
    /\ status_reporting
    /\ Entered(<<"status">>)

InteractiveAlarm ==
    \E line \in AlarmLines :
      /\ alarm(IF line = "" THEN "temperature_high" ELSE line)
      /\ Entered(<<"alarm", line>>)

InteractiveNetwork ==
    /\ network_status_query
    /\ Entered(<<"network">>)

InteractiveUnknown ==
    \E command \in UnknownLines :
      /\ UNCHANGED inside
      /\ Entered(<<command>>)

\* quit, or KeyboardInterrupt: the loop is left.
InteractiveQuit ==
    /\ run.op = "run_interactive_simulation"
    /\ run.pc = "input"
    /\ run' = [run EXCEPT !.pc = "quit"]
    /\ UNCHANGED <<inside, call, capture, lock, threads>>

InteractiveNext ==
    \/ InteractiveControl
    \/ InteractiveStatus
    \/ InteractiveAlarm
    \/ InteractiveNetwork
    \/ InteractiveUnknown
    \/ InteractiveQuit

SpecInteractive == InitInteractive /\ [][InteractiveNext]_vars

\* C35. In interactive mode on a fresh simulator, whatever commands are
\* entered, communication_log stays empty, device_status keeps its initial
\* values and is_connected stays False, until quit and after it.
InteractiveChangesNothing ==
    run.op = "run_interactive_simulation" =>
        /\ communication_log = <<>>
        /\ device_status = [power |-> FALSE, temperature |-> 25,
                            mode |-> "auto", alarm |-> FALSE]
        /\ ~is_connected

\* The user entered a valid control command, status, an unknown command,
\* and quit.
InteractiveWitness ==
    /\ run.op = "run_interactive_simulation"
    /\ run.pc = "quit"
    /\ run.entered = <<<<"power", "1">>, <<"status">>, <<"help">>>>

(***************************************************************************)
(* src/wifi_module_simulator.py, run_complete_simulation on a fresh        *)
(* simulator: seven calls, each followed by a sleep of the driver.  The    *)
(* sleeps inside the methods return after their length plus a jitter; the  *)
(* sleeps of the driver are taken at their length.                         *)
(***************************************************************************)
\* The controls of the sequence, by the position of their call.
CompleteControls ==
    [c \in 2..4 |-> IF c = 2 THEN <<"power", 1>>
                    ELSE IF c = 3 THEN <<"temperature", 22>>
                    ELSE <<"mode", 2>>]

\* The length in ms of the driver's sleep after call c.
CompleteSleeps == [c \in 1..7 |-> IF c = 1 THEN 2000 ELSE 1000]

InitComplete ==
    /\ Constructed
    /\ call = CHOOSE c \in Inputs : TRUE
    /\ capture = NoCapture
    /\ run = [op |-> "run_complete_simulation", pc |-> 1, sleeping |-> FALSE]

\* The driver is at call c.
AtCall(c) ==
    /\ run.op = "run_complete_simulation"
    /\ run.pc = c
    /\ ~run.sleeping
    /\ run' = [run EXCEPT !.sleeping = TRUE]
    /\ UNCHANGED <<call, capture, lock, threads>>

CompletePowerUp ==
    /\ AtCall(1)
    /\ power_up

CompleteControl ==
    \E c \in 2..4 :
      /\ AtCall(c)
      /\ control_command(CompleteControls[c][1], CompleteControls[c][2])

CompleteStatus ==
    /\ AtCall(5)
    /\ status_reporting

CompleteNetwork ==
    /\ AtCall(6)
    /\ network_status_query

CompleteAlarm ==
    /\ AtCall(7)
    /\ alarm("temperature_high")

\* time.sleep after a call; after the last one the driver prints and returns.
CompleteSleep ==
    /\ run.op = "run_complete_simulation"
    /\ run.sleeping
    /\ now' = now + CompleteSleeps[run.pc]
    /\ run' = [run EXCEPT !.sleeping = FALSE, !.pc = @ + 1]
    /\ UNCHANGED <<frame_id, device_address, module_address,
                   communication_log, is_connected, device_status,
                   call, capture, lock, threads>>

CompleteNext ==
    \/ CompletePowerUp
    \/ CompleteControl
    \/ CompleteStatus
    \/ CompleteNetwork
    \/ CompleteAlarm
    \/ CompleteSleep

SpecComplete == InitComplete /\ [][CompleteNext]_vars

\* The position of the driver after a step of CompleteNext: a call leaves
\* it in the sleep that follows, a sleep leaves it at the next call.
CompleteAdvance ==
    /\ run.op = "run_complete_simulation"
    /\ run.pc < 8
    /\ run' = IF run.sleeping
              THEN [run EXCEPT !.sleeping = FALSE, !.pc = @ + 1]
              ELSE [run EXCEPT !.sleeping = TRUE]

\* The driver is one sequential thread: while a statement is left, it is
\* run, and every call and every sleep returns.
SpecCompleteFair == SpecComplete /\ WF_run(CompleteAdvance)

\* run_complete_simulation has returned.
CompleteDone ==
    /\ run.op = "run_complete_simulation"
    /\ run.pc = 8

\* The fifteen entries: who sent each, and what it is.
CompleteEntries ==
    <<<<"modem", "Power-up initialization">>,
      <<"machine", "Power-up acknowledgment">>,
      <<"modem", "Device information">>,
      <<"modem", "Control: power=1">>,
      <<"machine", "Control acknowledgment">>,
      <<"modem", "Control: temperature=22">>,
      <<"machine", "Control acknowledgment">>,
      <<"modem", "Control: mode=2">>,
      <<"machine", "Control acknowledgment">>,
      <<"machine", "Status report">>,
      <<"modem", "Status acknowledgment">>,
      <<"modem", "Network status query">>,
      <<"machine", "Network status response">>,
      <<"machine", "Alarm: temperature_high">>,
      <<"modem", "Alarm acknowledgment">>>>

CompleteEnded ==
    /\ Len(communication_log) = 15
    /\ \A i \in 1..15 :
         /\ communication_log[i].source = CompleteEntries[i][1]
         /\ communication_log[i].description = CompleteEntries[i][2]
    /\ device_status = [power |-> TRUE, temperature |-> 22, mode |-> 2,
                        alarm |-> FALSE]

\* C36. run_complete_simulation on a fresh simulator terminates, and when
\* it ends the log holds exactly 15 entries (3 of the power-up, then 2 for
\* each of the three controls, the status report, the network query and
\* the alarm, each request followed by the acknowledgment of the other
\* device) and device_status is power=True, temperature=22, mode=2,
\* alarm=False.
CompleteSimulationEnds ==
    /\ <>CompleteDone
    /\ [](CompleteDone => CompleteEnded)

\* The sequence has returned with its entries logged.
CompleteWitness ==
    /\ CompleteDone
    /\ Len(communication_log) = 15
    /\ device_status.mode = 2

(***************************************************************************)
(* src/wifi_module_simulator.py, log_communication called by two threads:  *)
(* what the log holds once calls have returned.                            *)
(***************************************************************************)
\* The calls of run.calls that have returned: no thread is making them.
returned ==
    {c \in DOMAIN run.calls :
        \A t \in Producers :
            threads[t].pc = "idle" \/ threads[t].call # c}

\* Entry e is what call c logs.
EntryOf(e, c) ==
    /\ e.source = c.source
    /\ e.frame = hex_string(c.frame)
    /\ e.description = c.description

\* The entries of the log and the returned calls match one to one.
OneEntryPerCall ==
    /\ Len(communication_log) = Cardinality(returned)
    /\ \E f \in [DOMAIN communication_log -> returned] :
         /\ \A i, j \in DOMAIN communication_log : f[i] = f[j] => i = j
         /\ \A i \in DOMAIN communication_log :
              EntryOf(communication_log[i], run.calls[f[i]])

\* The log of the state before is the beginning of the log of the state
\* after.
LogOnlyGrows ==
    /\ Len(communication_log) <= Len(communication_log')
    /\ \A i \in DOMAIN communication_log :
         communication_log'[i] = communication_log[i]

\* C37. After any interleaving of N concurrent log_communication calls the
\* log holds exactly N entries, one per call, each with the source, frame
\* text and description of its own call; entries already in the log are
\* never removed or changed.
EveryCallLoggedOnce ==
    /\ [](run.op = "log_communication" => OneEntryPerCall)
    /\ [][run.op = "log_communication" => LogOnlyGrows]_vars

\* Three calls have returned, two of them made at once by the two threads,
\* and the entry of the call made later precedes the entry of the earlier.
LoggedOnceWitness ==
    /\ run.op = "log_communication"
    /\ Len(run.calls) = 3
    /\ returned = {1, 2, 3}
    /\ run.calls[1].source = "modem"
    /\ run.calls[2].source = "machine"
    /\ communication_log[1].source = "machine"
    /\ communication_log[2].source = "modem"

(***************************************************************************)
(* src/state_machine_analysis.py, analyze_authentication_flow, and         *)
(* src/crypto_analysis.py, analyze_rolling_code_algorithm: the time from   *)
(* challenge to response of the pairs reported.                            *)
(***************************************************************************)
\* response['timestamp'] - challenge['timestamp']
response_time(pair) == pair.response.timestamp - pair.challenge.timestamp

\* C38. In every challenge-response pair reported for an authentication
\* sequence or a power cycle the response comes after its challenge in the
\* capture: for a capture in time order every reported time from challenge
\* to response is non-negative.
ResponseFollowsChallenge ==
    Paired =>
        \A k \in DOMAIN run.pairs : \A i \in DOMAIN run.pairs[k] :
            response_time(run.pairs[k][i]) >= 0

(***************************************************************************)
(* src/state_machine_analysis.py, analyze_timing_patterns: the time        *)
(* differences of the transitions grouped by interval.                     *)
(***************************************************************************)
\* [t['time_diff'] for t in transitions if t['time_diff'] > 0]
transition_times(transitions) ==
    LET time_diffs == [i \in DOMAIN transitions |-> transitions[i].time_diff]
    IN  SelectSeq(time_diffs, LAMBDA t : t > 0)

\* The dictionary intervals built from transition_times.
intervals(times) ==
    [immediate |-> SelectSeq(times, LAMBDA t : t = 0),
     fast |-> SelectSeq(times, LAMBDA t : 0 < t /\ t <= 5),
     medium |-> SelectSeq(times, LAMBDA t : 5 < t /\ t <= 30),
     slow |-> SelectSeq(times, LAMBDA t : t > 30)]

\* Seconds between consecutive lines: one for each interval.
IntervalGaps == {0, 3, 10, 37}

InitIntervals ==
    /\ Constructed
    /\ call = CHOOSE c \in Inputs : TRUE
    /\ capture \in CapturesWith({MarkerLine, AuthLine}, IntervalGaps,
                                MaxAuthLines)
    /\ run = [op |-> "input"]

\* state_machine_analysis.main up to the distribution printed by
\* analyze_timing_patterns; intervals is built only when transition_times
\* is not empty, and its groups are empty otherwise.
transition_timing_distribution ==
    /\ run.op = "input"
    /\ LET transitions == build_transitions(extract_state_transitions(capture))
           times == transition_times(transitions)
       IN  run' = [op |-> "transition_timing_distribution",
                   transitions |-> transitions,
                   transition_times |-> times,
                   built |-> times # <<>>,
                   intervals |-> IF times # <<>> THEN intervals(times)
                                 ELSE intervals(<<>>)]
    /\ UNCHANGED <<simvars, now, call, capture>>

SpecIntervals == InitIntervals /\ [][transition_timing_distribution]_vars

\* The transitions whose time difference is at least lo and at most hi.
TransitionsWithin(lo, hi) ==
    {i \in DOMAIN run.transitions :
        lo <= run.transitions[i].time_diff
        /\ run.transitions[i].time_diff <= hi}

\* C39. The four intervals partition the transitions: every transition is
\* counted in exactly one of immediate (time_diff = 0), fast (0 < d <= 5),
\* medium (5 < d <= 30) and slow (d > 30), so the counts of the four sum to
\* the number of transitions.
IntervalsPartitionTransitions ==
    run.op = "transition_timing_distribution" =>
        /\ Len(run.intervals.immediate) = Cardinality(TransitionsWithin(0, 0))
        /\ Len(run.intervals.fast) = Cardinality(TransitionsWithin(1, 5))
        /\ Len(run.intervals.medium) = Cardinality(TransitionsWithin(6, 30))
        /\ Len(run.intervals.slow)
               = Cardinality(TransitionsWithin(31, 37 * MaxAuthLines))
        /\ Len(run.intervals.immediate) + Len(run.intervals.fast)
               + Len(run.intervals.medium) + Len(run.intervals.slow)
               = Len(run.transitions)

====
